---- MODULE Spec2Model ----
(***************************************************************************)
(* The fitness server (src/src/supabase/functions/server/index.tsx) over   *)
(* the relational store of supabase/migrations, in six specifications:     *)
(*   Spec        routine upsert and exercise-catalog resolution            *)
(*   DashSpec    the PT dashboard, health logs and calendar events         *)
(*   StatsSpec   computeStreakStats and computeWeeklyGoal                  *)
(*   FormatSpec  formatSets and formatRepsFallback                         *)
(*   LogSpec     workout logging, signup, client creation and update (and  *)
(*               the PT dashboard beside them)                             *)
(*   HistorySpec every request of Spec, DashSpec and LogSpec, in any order *)
(* Every awaited store call is one atomic step, and requests are served    *)
(* concurrently: the steps of the requests in flight interleave between    *)
(* their awaits.  A select without ORDER BY, or sorted by a key that rows  *)
(* share, returns its rows in any order.  Each of the first five leaves    *)
(* the variables it does not use at their initial values.                  *)
(***************************************************************************)
EXTENDS Integers, Sequences, FiniteSets, TLC

\* an absent string: the key is missing from the JSON body (undefined), and
\* is dropped from any payload the value is put in
None == "none"
\* the JSON value null given for a string: kept as null in a payload
JsonNull == "null"
\* an absent id (routineId?: string, catalogId?: string | null)
NoId == 0
\* an absent value of a nullable column or field (null / undefined), and a
\* present one
Null == << >>
Some(x) == << x >>

\* ------------------------------------------------------------------ bounds
MaxCalls == 2
MaxFailures == 1
MaxRequests == 2

\* -------------------------------------------------------------- callers
\* the PTs and the clients that exist from the start; client c1 is assigned
\* to p1 and c2 to p2 (SeedAccounts)
PTs == {"p1", "p2"}
Clients == {"c1", "c2"}
\* the ids the auth service gives to the accounts it creates, in order
AccountIds == << "u1", "u2", "u3" >>

\* ------------------------------------------------------------ text helpers
\* Names are sequences of characters, so that trim(), lower() and ILIKE are
\* computed, not assumed.
UpperCase == << "A", "B", "C", "D", "E", "F", "G", "H", "I", "J", "K", "L", "M",
               "N", "O", "P", "Q", "R", "S", "T", "U", "V", "W", "X", "Y", "Z" >>
LowerCase == << "a", "b", "c", "d", "e", "f", "g", "h", "i", "j", "k", "l", "m",
               "n", "o", "p", "q", "r", "s", "t", "u", "v", "w", "x", "y", "z" >>

\* String.prototype.toLowerCase on one character: every letter A-Z becomes
\* its lower-case letter, any other character is kept
LowerOf == [ ch \in { UpperCase[i] : i \in 1..Len(UpperCase) } |->
              LowerCase[CHOOSE i \in 1..Len(UpperCase) : UpperCase[i] = ch] ]

Lower(ch) == IF ch \in DOMAIN LowerOf THEN LowerOf[ch] ELSE ch

LowerStr(s) == [i \in 1..Len(s) |-> Lower(s[i])]

IsSpace(ch) == ch = " "

RECURSIVE TrimLeft(_)
TrimLeft(s) ==
  IF s # <<>> /\ IsSpace(Head(s)) THEN TrimLeft(Tail(s)) ELSE s

RECURSIVE TrimRight(_)
TrimRight(s) ==
  IF s # <<>> /\ IsSpace(s[Len(s)]) THEN TrimRight(SubSeq(s, 1, Len(s) - 1)) ELSE s

\* String.prototype.trim
Trim(s) == TrimRight(TrimLeft(s))

\* SQL ILIKE: "_" matches any one character, "%" any run of characters, every
\* other character matches itself case-insensitively.  The pattern is the
\* caller's trimmed name, passed unescaped.
RECURSIVE ILike(_, _)
ILike(p, t) ==
  IF p = <<>> THEN t = <<>>
  ELSE IF Head(p) = "%"
    THEN ILike(Tail(p), t) \/ (t # <<>> /\ ILike(p, Tail(t)))
  ELSE /\ t # <<>>
       /\ (Head(p) = "_" \/ Lower(Head(p)) = Lower(Head(t)))
       /\ ILike(Tail(p), Tail(t))

\* String(n) for a natural number
DigitChars == << "0", "1", "2", "3", "4", "5", "6", "7", "8", "9" >>
RECURSIVE NumberToString(_)
NumberToString(n) ==
  IF n < 10 THEN << DigitChars[n + 1] >>
  ELSE NumberToString(n \div 10) \o << DigitChars[(n % 10) + 1] >>

\* a number that is neither null nor 0
TruthyNumber(opt) == opt # Null /\ opt[1] # 0

\* the value of a run of decimal digits
RECURSIVE DigitsValue(_)
DigitsValue(s) ==
  IF s = << >> THEN 0
  ELSE 10 * DigitsValue(SubSeq(s, 1, Len(s) - 1))
         + (CHOOSE d \in 0..9 : DigitChars[d + 1] = s[Len(s)])

AllDigits(s) == \A i \in 1..Len(s) : \E d \in 1..10 : DigitChars[d] = s[i]

\* Number(s) of a string of digits, "-" and spaces: surrounding white space
\* is dropped, the empty string is 0, a run of digits (with a sign) its
\* value, anything else NaN (Null)
ParseNumber(s) ==
  LET t == Trim(s) IN
  IF t = << >> THEN Some(0)
  ELSE IF AllDigits(t) THEN Some(DigitsValue(t))
  ELSE IF Head(t) = "-" /\ Len(t) > 1 /\ AllDigits(Tail(t))
    THEN Some(0 - DigitsValue(Tail(t)))
  ELSE Null

\* ------------------------------------------------------------------ inputs
\* a value of a request body that may be a number or a string
\* (reps?: string | number): absent, a number, or a string
Absent == [type |-> "undefined", num |-> 0, str |-> << >>]
Num(n) == [type |-> "number", num |-> n, str |-> << >>]
Str(s) == [type |-> "string", num |-> 0, str |-> s]

\* one element of exercise.sets: { reps, rest, weight }
SetInput(reps, rest, weight) == [reps |-> reps, rest |-> rest, weight |-> weight]

\* one element of params.exercises (sets as given, defaultRestSeconds null or
\* a number >= 0)
Exercise(n, c, sets, rest) ==
  [name |-> n, catalogId |-> c, sets |-> sets, defaultRestSeconds |-> rest]

\* exercises a direct resolveExerciseCatalogId call may be given
ResolveInputs ==
  { Exercise(<<"a", "_">>, NoId, << >>, Null),
    Exercise(<<"A", "_">>, NoId, << >>, Null),
    Exercise(<<" ", "A", "b">>, NoId, << >>, Null),
    Exercise(<<"a", "b">>, 1, << >>, Null) }

\* exercise lists an upsertRoutine call may be given: "aa" by its catalog id
\* with one set given as {}; "ab " with the sets {reps 12, rest 60, weight 20}
\* and {reps "6-8"}, then "a_" without sets and with defaultRestSeconds 45
ExerciseLists ==
  { << Exercise(<<"a", "a">>, 1, << SetInput(Absent, Absent, Null) >>, Null) >>,
    << Exercise(<<"a", "b", " ">>, NoId,
                << SetInput(Num(12), Num(60), Some(20)),
                   SetInput(Str(<<"6", "-", "8">>), Absent, Null) >>, Null),
       Exercise(<<"a", "_">>, NoId, << >>, Some(45)) >> }

\* the << routineId, body.clientId >> a request may carry: POST (no routineId)
\* with either client or none, PUT of routine 1 (p1's) with a client, without
\* the clientId key or with clientId null, PUT of routine 2 (absent until a
\* POST creates it)
RequestInputs ==
  { <<NoId, "c1">>, <<NoId, "c2">>, <<NoId, None>>,
    <<1, "c1">>, <<1, None>>, <<1, JsonNull>>, <<2, "c1">> }

\* ------------------------------------------------------------------- state
\* Of each row the columns the upsert and the resolver decide are kept;
\* routine_name and notes are written as given and read by nothing here.
VARIABLES
  exercises_catalog,      \* rows [id, pt_id, name, default_rest_seconds]
  routines,               \* rows [id, pt_id, client_id]
  routine_exercises,      \* rows [id, routine_id, exercise_id, position]
  routine_exercise_sets,  \* rows [routine_exercise_id, set_number, target_reps,
                          \*       target_rep_range, target_rest_seconds, target_weight]
  nextId,                 \* gen_random_uuid(): the next fresh id of each table
  calls,                  \* the requests: one record per call slot
  failures                \* store failures injected so far

\* The client statistics: the arguments and results of computeStreakStats and
\* computeWeeklyGoal, and the server's clock.
VARIABLES
  clock,                  \* what new Date() / Date.now() reads, in milliseconds
  sessionLogs,            \* the performed_at values of the rows passed in, in row order
  profile,                \* the ProfileRow passed in: [training_frequency_goal]
  routineCount,           \* routines.length
  streak,                 \* the StreakStats returned
  weeklyGoal              \* the WeeklyGoalStats returned

\* The routine view: the argument and result of formatSets.
VARIABLES
  exerciseRow,            \* the routine_exercises row with its nested set rows
  defaultRestSeconds,     \* the catalog entry's default_rest_seconds
  formatted               \* the sets returned

\* The PT dashboard: health logs and calendar events.
VARIABLES
  client_health_logs,     \* rows [id, client_id, injury_title, status, logged_at, created_by_pt]
  pt_calendar_events      \* rows [id, pt_id, client_id, event_type, start_at]

\* Workout logging and client creation.
VARIABLES
  session_logs,           \* rows [id, routine_id, client_id, pt_id, performed_at]
  session_log_sets,       \* rows [session_log_id, exercise_id, set_number]
  notifications,          \* rows [user_id, type, client_id]
  accounts                \* auth.users rows [id, email, role], each with its
                          \* profiles row (profile: [full_name, email]) and its
                          \* active pt_clients row (assigned_to: the pt_id)

\* The requests being served (PT dashboard, workout logging, accounts).
VARIABLES
  request,                \* the requests in flight: one record per request slot
  response,               \* the response sent last
  answered                \* the request answered last, as it stood when it
                          \* answered (read by the properties only)

routineVars == << exercises_catalog, routines, routine_exercises,
                  routine_exercise_sets, nextId, calls >>
statsVars == << sessionLogs, profile, routineCount, streak, weeklyGoal >>
formatVars == << exerciseRow, defaultRestSeconds, formatted >>
dashVars == << client_health_logs, pt_calendar_events >>
logVars == << session_logs, session_log_sets, notifications, accounts >>
flightVars == << request, response, answered >>

vars == << routineVars, failures, clock, statsVars, formatVars, dashVars, logVars,
           flightVars >>

\* what the routine requests leave alone
outsideRoutines == << clock, statsVars, formatVars, dashVars, logVars, flightVars >>

store == << exercises_catalog, routines, routine_exercises, routine_exercise_sets >>

Slots == 1..MaxCalls
ReqSlots == 1..MaxRequests

IdleCall ==
  [ kind |-> "none", pc |-> "idle",
    ptId |-> None, paramRoutineId |-> NoId, clientId |-> None, exercises |-> <<>>,
    routineId |-> NoId, idx |-> 0, position |-> 0,
    trimmedName |-> <<>>, exerciseId |-> NoId, routineExerciseId |-> NoId,
    result |-> NoId, err |-> None, status |-> 0,
    \* history of the call, read by the properties only
    matched |-> FALSE,   \* the routine update matched a row
    wrote |-> {},        \* the tables whose rows the call changed
    skipped |-> 0,       \* nested inserts of the call that failed
    lookupRows |-> -1,   \* rows the last name lookup matched (-1: none made, or it failed)
    sequential |-> FALSE \* every earlier call had ended when this one started
  ]

\* The store after p1 has created routine 1 for c1 with exercises "aa"
\* (defaultRestSeconds 90, one set {reps "12", rest "60"}) and "ab" (no set):
\* POST /pt/routine, every insert succeeding.
SeedCatalog ==
  { [id |-> 1, pt_id |-> "p1", name |-> <<"a", "a">>, default_rest_seconds |-> Some(90)],
    [id |-> 2, pt_id |-> "p1", name |-> <<"a", "b">>, default_rest_seconds |-> Null] }
SeedRoutines == { [id |-> 1, pt_id |-> "p1", client_id |-> "c1"] }
SeedExercises ==
  { [id |-> 1, routine_id |-> 1, exercise_id |-> 1, position |-> 0],
    [id |-> 2, routine_id |-> 1, exercise_id |-> 2, position |-> 1] }
SeedSets ==
  { [ routine_exercise_id |-> 1, set_number |-> 1, target_rep_range |-> Null,
      target_reps |-> Some(12), target_rest_seconds |-> Some(60),
      target_weight |-> Null ] }

\* an account with its profiles row; a client's is assigned to a PT
SeedAccount(id, role, pt) ==
  [ id |-> id, email |-> << id, "@", "x" >>, role |-> role,
    profile |-> Some([ full_name |-> << id >>, email |-> << id, "@", "x" >> ]),
    assigned_to |-> pt ]

\* the accounts of the PTs p1 and p2 and of the clients c1 (of p1) and c2
\* (of p2)
SeedAccounts ==
  { SeedAccount("p1", "pt", None), SeedAccount("p2", "pt", None),
    SeedAccount("c1", "client", "p1"), SeedAccount("c2", "client", "p2") }

\* profiles: the ids of the rows stored
Profiles == { a.id : a \in { b \in accounts : b.profile # Null } }

\* pt_clients: the << pt_id, client_id >> of the rows stored (all active)
Assigned ==
  { << a.assigned_to, a.id >> : a \in { b \in accounts : b.assigned_to # None } }

NoResponse == [status |-> 0, kind |-> "none"]
NoRequest == [kind |-> "none", pc |-> "idle"]

RoutineInit ==
  /\ exercises_catalog = SeedCatalog
  /\ routines = SeedRoutines
  /\ routine_exercises = SeedExercises
  /\ routine_exercise_sets = SeedSets
  /\ nextId = [catalog |-> 3, routine |-> 2, exercise |-> 3]
  /\ calls = [s \in Slots |-> IdleCall]

\* nothing passed to, or returned by, the statistics functions
StatsIdle ==
  /\ sessionLogs = << >>
  /\ profile = [training_frequency_goal |-> Null]
  /\ routineCount = 0
  /\ streak = Null
  /\ weeklyGoal = Null

FormatIdle ==
  /\ exerciseRow = Null
  /\ defaultRestSeconds = Null
  /\ formatted = Null

DashIdle ==
  /\ client_health_logs = {}
  /\ pt_calendar_events = {}

\* no request in flight, none answered yet
FlightIdle ==
  /\ request = [ q \in ReqSlots |-> NoRequest ]
  /\ response = NoResponse
  /\ answered = NoRequest

LogIdle ==
  /\ session_logs = {}
  /\ session_log_sets = {}
  /\ notifications = {}
  /\ accounts = SeedAccounts

Init ==
  /\ RoutineInit
  /\ failures = 0
  /\ clock = 0
  /\ StatsIdle
  /\ FormatIdle
  /\ DashIdle
  /\ LogIdle
  /\ FlightIdle


\* ------------------------------------------------------------ store access
\* .select("id").eq("id", id).eq("pt_id", pt)
SelectCatalogById(id, pt) ==
  { r \in exercises_catalog : r.id = id /\ r.pt_id = pt }

\* .select("id").eq("pt_id", pt).ilike("name", pattern)
SelectCatalogByName(pt, pattern) ==
  { r \in exercises_catalog : r.pt_id = pt /\ ILike(pattern, r.name) }

\* .maybeSingle(): the row when exactly one matches, no data otherwise (no
\* row: no error; several rows: error PGRST116)
MaybeSingle(rows) ==
  IF Cardinality(rows) = 1
    THEN [data |-> (CHOOSE r \in rows : TRUE).id, error |-> None]
  ELSE IF rows = {} THEN [data |-> NoId, error |-> None]
  ELSE [data |-> NoId, error |-> "PGRST116"]

\* the index taken on (pt_id, name) instead: case-sensitive
CatalogUniqueOk_CaseSensitive(pt, name) ==
  \A r \in exercises_catalog : ~(r.pt_id = pt /\ r.name = name)

\* unique index exercises_catalog_unique_name_per_pt on (pt_id, lower(name))
CatalogUniqueOk(pt, name) ==
  \A r \in exercises_catalog :
    ~(r.pt_id = pt /\ LowerStr(r.name) = LowerStr(name))

\* routines.client_id: NOT NULL REFERENCES profiles(id); a column missing
\* from an insert payload is null
RoutineInsertOk(clientId) == clientId \notin {None, JsonNull} /\ clientId \in Profiles

\* routines.client_id NOT NULL, on update: a payload with client_id null is
\* refused when a row matches; a payload without the column keeps the row's
RoutineUpdateOk(clientId, hit) == clientId # JsonNull \/ hit = {}

\* routine_exercises.routine_id REFERENCES routines(id)
ExerciseInsertOk(routineId) == \E r \in routines : r.id = routineId

\* the insert of a batch of routine_exercise_sets rows is accepted:
\* routine_exercise_id REFERENCES routine_exercises(id), the CHECKs on
\* set_number, target_reps, target_weight and target_rest_seconds, and
\* UNIQUE (routine_exercise_id, set_number)
SetsInsertOk(routineExerciseId, payload) ==
  /\ \E r \in routine_exercises : r.id = routineExerciseId
  /\ \A t \in payload :
       /\ t.set_number > 0
       /\ IF t.target_reps = Null THEN TRUE ELSE t.target_reps[1] > 0
       /\ IF t.target_weight = Null THEN TRUE ELSE t.target_weight[1] >= 0
       /\ IF t.target_rest_seconds = Null THEN TRUE ELSE t.target_rest_seconds[1] >= 0
       /\ \A u \in routine_exercise_sets :
            ~(u.routine_exercise_id = t.routine_exercise_id /\ u.set_number = t.set_number)

\* .update(payload).eq("id", routineId).eq("pt_id", ptId)
UpdateMatches(routineId, ptId) ==
  { r \in routines : r.id = routineId /\ r.pt_id = ptId }

\* .delete().eq("routine_id", routineId)
DeleteMatches(routineId) ==
  { r \in routine_exercises : r.routine_id = routineId }

\* ON DELETE CASCADE of routine_exercise_sets.routine_exercise_id
CascadeSets(deleted) ==
  { t \in routine_exercise_sets :
      \E r \in deleted : t.routine_exercise_id = r.id }

\* Number(value) of a body value: NaN (Null) for an absent one
ToNumber(value) ==
  IF value.type = "number" THEN Some(value.num)
  ELSE IF value.type = "string" THEN ParseNumber(value.str)
  ELSE Null

\* typeof set.reps === "string" && set.reps.includes("-") ? set.reps : null
TargetRepRange(reps) ==
  IF reps.type = "string" /\ \E i \in 1..Len(reps.str) : reps.str[i] = "-"
    THEN Some(reps.str)
  ELSE Null

\* typeof set.reps === "number" ? set.reps : Number(set.reps) || null
TargetReps(reps) ==
  IF reps.type = "number" THEN Some(reps.num)
  ELSE IF TruthyNumber(ToNumber(reps)) THEN ToNumber(reps)
  ELSE Null

\* set.rest != null ? Number(set.rest) : null (NaN is sent as null)
TargetRest(rest) == IF rest.type = "undefined" THEN Null ELSE ToNumber(rest)

\* one row of setsPayload
SetPayloadRow(routineExerciseId, number, set) ==
  [ routine_exercise_id |-> routineExerciseId,
    set_number |-> number,
    target_rep_range |-> TargetRepRange(set.reps),
    target_reps |-> TargetReps(set.reps),
    target_rest_seconds |-> TargetRest(set.rest),
    target_weight |-> set.weight ]

\* setsPayload numbered from 2 (a variant the set-number property must notice)
SetsPayload_FromTwo(routineExerciseId, sets) ==
  { SetPayloadRow(routineExerciseId, index + 2, sets[index + 1]) :
      index \in 0..(Len(sets) - 1) }

\* setsPayload: set_number = index + 1
SetsPayload(routineExerciseId, sets) ==
  { SetPayloadRow(routineExerciseId, index + 1, sets[index + 1]) :
      index \in 0..(Len(sets) - 1) }

CanFail == failures < MaxFailures

\* ------------------------------------------------------------ control flow
\* The head of upsertRoutine's loop (and the entry of a direct resolve call):
\* with an exercise left, enter resolveExerciseCatalogId for it; with none
\* left, upsertRoutine returns routineId to its handler.
BeginExercise(c) ==
  IF c.idx > Len(c.exercises)
    THEN [c EXCEPT !.pc = "fetch", !.result = c.routineId]
    ELSE [c EXCEPT
            !.trimmedName = Trim(c.exercises[c.idx].name),
            !.lookupRows = -1,
            !.pc = IF c.exercises[c.idx].catalogId # NoId
                     THEN "res_byid" ELSE "res_lookup"]

\* resolveExerciseCatalogId returns id
ResolveReturn(c, id) ==
  IF c.kind = "resolve"
    THEN [c EXCEPT !.pc = "done", !.result = id]
    ELSE [c EXCEPT !.pc = "ex_insert", !.exerciseId = id]

\* the messages of the errors upsertRoutine and resolveExerciseCatalogId throw
RoutineCreateFailed == "Routine creation failed"
RoutineUpdateFailed == "Routine update failed"
CatalogCreateFailed == "Failed to create exercise in catalog"

\* an exception leaves upsertRoutine (or the direct call); the handler's
\* catch answers 500
Throw(c, msg) == [c EXCEPT !.pc = "error", !.err = msg, !.status = 500]

\* a failed exercise insert rethrown instead of skipped
Continue_Abort(c) ==
  Throw([c EXCEPT !.skipped = c.skipped + 1], "Failed to insert routine exercise")

\* `continue`: the next exercise, position kept
Continue(c) == BeginExercise([c EXCEPT !.idx = c.idx + 1, !.skipped = c.skipped + 1])

\* the end of the loop body: position += 1, the next exercise
NextPosition(c) ==
  BeginExercise([c EXCEPT !.idx = c.idx + 1, !.position = c.position + 1])

Wrote(c, table) == [c EXCEPT !.wrote = c.wrote \cup {table}]

SetCall(s, c) == calls' = [calls EXCEPT ![s] = c]

\* call slots are taken in order
CanStart(s) ==
  /\ calls[s].pc = "idle"
  /\ IF s = 1 THEN TRUE ELSE calls[s - 1].pc # "idle"

\* the call has ended: its result or its error is with the caller
Ended(c) == c.pc \in {"done", "error"}

StartedAfterOthers(s) == \A t \in Slots : t < s => Ended(calls[t])


\* a request may arrive while another awaits the store; the request slots
\* are taken in order
CanBegin(q) ==
  /\ request[q].pc = "idle"
  /\ IF q = 1 THEN TRUE ELSE request[q - 1].pc # "idle"

\* the request of slot q goes on to its next store call
Go(q, req) ==
  /\ request' = [ request EXCEPT ![q] = req ]
  /\ UNCHANGED << response, answered >>

\* the request of slot q sends its response and ends
Answer(q, req, resp) ==
  /\ request' = [ request EXCEPT ![q] = NoRequest ]
  /\ answered' = [ req EXCEPT !.pc = "done" ]
  /\ response' = resp


\* ----------------------------------------------------------------- actions
\* POST /pt/routine (routineId absent) or PUT /pt/routine/:routineId by a PT
StartUpsert(s, pt, rid, cid, exs) ==
  /\ CanStart(s)
  /\ SetCall(s, [IdleCall EXCEPT
        !.kind = "upsert", !.pc = "routine_write", !.ptId = pt,
        !.paramRoutineId = rid, !.routineId = rid, !.clientId = cid,
        !.exercises = exs, !.sequential = StartedAfterOthers(s)])
  /\ UNCHANGED << store, nextId, failures >>
  /\ UNCHANGED outsideRoutines

\* a direct call resolveExerciseCatalogId(pt, ex)
StartResolve(s, pt, ex) ==
  /\ CanStart(s)
  /\ SetCall(s, BeginExercise([IdleCall EXCEPT
        !.kind = "resolve", !.ptId = pt, !.exercises = << ex >>, !.idx = 1,
        !.sequential = StartedAfterOthers(s)]))
  /\ UNCHANGED << store, nextId, failures >>
  /\ UNCHANGED outsideRoutines

\* upsertRoutine, CREATE: insert the routine row
RoutineInsert(s) ==
  LET c == calls[s] IN
  /\ c.pc = "routine_write"
  /\ c.routineId = NoId
  /\ \/ /\ RoutineInsertOk(c.clientId)
        /\ routines' = routines \cup
             { [id |-> nextId.routine, pt_id |-> c.ptId, client_id |-> c.clientId] }
        /\ nextId' = [nextId EXCEPT !.routine = nextId.routine + 1]
        /\ SetCall(s, BeginExercise(Wrote(
             [c EXCEPT !.routineId = nextId.routine, !.idx = 1, !.position = 0],
             "routines")))
        /\ UNCHANGED failures
     \/ /\ ~RoutineInsertOk(c.clientId)
        /\ SetCall(s, Throw(c, RoutineCreateFailed))
        /\ UNCHANGED << routines, nextId, failures >>
     \/ /\ RoutineInsertOk(c.clientId)
        /\ CanFail
        /\ failures' = failures + 1
        /\ SetCall(s, Throw(c, RoutineCreateFailed))
        /\ UNCHANGED << routines, nextId >>
  /\ UNCHANGED << exercises_catalog, routine_exercises, routine_exercise_sets >>
  /\ UNCHANGED outsideRoutines

\* the update's error looked at only after the delete: a failed update
\* still deletes the routine's exercise rows before it throws
RoutineUpdate_DeleteBeforeCheck(s) ==
  LET c == calls[s]
      hit == UpdateMatches(c.routineId, c.ptId)
      gone == DeleteMatches(c.routineId) IN
  /\ c.pc = "routine_write"
  /\ c.routineId # NoId
  /\ \/ /\ RoutineUpdateOk(c.clientId, hit)
        /\ routines' = (routines \ hit) \cup
             { [r EXCEPT !.client_id =
                  IF c.clientId # None THEN c.clientId ELSE r.client_id] : r \in hit }
        /\ SetCall(s, IF hit # {}
                        THEN Wrote([c EXCEPT !.pc = "delete", !.matched = TRUE], "routines")
                        ELSE [c EXCEPT !.pc = "delete"])
        /\ UNCHANGED << failures, routine_exercises, routine_exercise_sets >>
     \/ /\ ~RoutineUpdateOk(c.clientId, hit)
        /\ routine_exercises' = routine_exercises \ gone
        /\ routine_exercise_sets' = routine_exercise_sets \ CascadeSets(gone)
        /\ SetCall(s, Throw(IF gone # {} THEN Wrote(c, "routine_exercises") ELSE c,
                            RoutineUpdateFailed))
        /\ UNCHANGED << routines, failures >>
     \/ /\ CanFail
        /\ failures' = failures + 1
        /\ routine_exercises' = routine_exercises \ gone
        /\ routine_exercise_sets' = routine_exercise_sets \ CascadeSets(gone)
        /\ SetCall(s, Throw(IF gone # {} THEN Wrote(c, "routine_exercises") ELSE c,
                            RoutineUpdateFailed))
        /\ UNCHANGED routines
  /\ UNCHANGED << exercises_catalog, nextId >>
  /\ UNCHANGED outsideRoutines

\* upsertRoutine, UPDATE: update the routine row of this id and this PT; an
\* update that matches no row is no error, an update of a row to client_id
\* null is refused by the store and throws
RoutineUpdate(s) ==
  LET c == calls[s]
      hit == UpdateMatches(c.routineId, c.ptId) IN
  /\ c.pc = "routine_write"
  /\ c.routineId # NoId
  /\ \/ /\ RoutineUpdateOk(c.clientId, hit)
        /\ routines' = (routines \ hit) \cup
             { [r EXCEPT !.client_id =
                  IF c.clientId # None THEN c.clientId ELSE r.client_id] : r \in hit }
        /\ SetCall(s, IF hit # {}
                        THEN Wrote([c EXCEPT !.pc = "delete", !.matched = TRUE], "routines")
                        ELSE [c EXCEPT !.pc = "delete"])
        /\ UNCHANGED failures
     \/ /\ ~RoutineUpdateOk(c.clientId, hit)
        /\ SetCall(s, Throw(c, RoutineUpdateFailed))
        /\ UNCHANGED << routines, failures >>
     \/ /\ CanFail
        /\ failures' = failures + 1
        /\ SetCall(s, Throw(c, RoutineUpdateFailed))
        /\ UNCHANGED routines
  /\ UNCHANGED << exercises_catalog, routine_exercises, routine_exercise_sets, nextId >>
  /\ UNCHANGED outsideRoutines

\* the delete aimed at the routines table instead: the routine row goes, and
\* its exercise rows and their sets with it (ON DELETE CASCADE)
DeleteExercises_RoutineRow(s) ==
  LET c == calls[s]
      gone == DeleteMatches(c.routineId)
      next == BeginExercise([c EXCEPT !.idx = 1, !.position = 0]) IN
  /\ c.pc = "delete"
  /\ \/ /\ routines' = { r \in routines : r.id # c.routineId }
        /\ routine_exercises' = routine_exercises \ gone
        /\ routine_exercise_sets' = routine_exercise_sets \ CascadeSets(gone)
        /\ SetCall(s, Wrote(next, "routines"))
        /\ UNCHANGED failures
     \/ /\ CanFail
        /\ failures' = failures + 1
        /\ SetCall(s, next)
        /\ UNCHANGED << routines, routine_exercises, routine_exercise_sets >>
  /\ UNCHANGED << exercises_catalog, nextId >>
  /\ UNCHANGED outsideRoutines

\* upsertRoutine, UPDATE: delete the routine's exercise rows (their sets
\* cascade); the result of the delete is not looked at
DeleteExercises(s) ==
  LET c == calls[s]
      gone == DeleteMatches(c.routineId)
      next == BeginExercise([c EXCEPT !.idx = 1, !.position = 0]) IN
  /\ c.pc = "delete"
  /\ \/ /\ routine_exercises' = routine_exercises \ gone
        /\ routine_exercise_sets' = routine_exercise_sets \ CascadeSets(gone)
        /\ SetCall(s, IF gone # {} THEN Wrote(next, "routine_exercises") ELSE next)
        /\ UNCHANGED failures
     \/ /\ CanFail
        /\ failures' = failures + 1
        /\ SetCall(s, next)
        /\ UNCHANGED << routine_exercises, routine_exercise_sets >>
  /\ UNCHANGED << exercises_catalog, routines, nextId >>
  /\ UNCHANGED outsideRoutines

\* resolveExerciseCatalogId: the lookup by catalogId within this PT's catalog
ResolveById(s) ==
  LET c == calls[s]
      got == MaybeSingle(SelectCatalogById(c.exercises[c.idx].catalogId, c.ptId)) IN
  /\ c.pc = "res_byid"
  /\ \/ /\ SetCall(s, IF got.error = None /\ got.data # NoId
                        THEN ResolveReturn(c, got.data)
                        ELSE [c EXCEPT !.pc = "res_lookup"])
        /\ UNCHANGED failures
     \/ /\ CanFail
        /\ failures' = failures + 1
        /\ SetCall(s, [c EXCEPT !.pc = "res_lookup"])
  /\ UNCHANGED << store, nextId >>
  /\ UNCHANGED outsideRoutines

\* resolveExerciseCatalogId: the lookup by name (ilike) within this PT's catalog
ResolveLookup(s) ==
  LET c == calls[s]
      rows == SelectCatalogByName(c.ptId, c.trimmedName)
      existing == MaybeSingle(rows)
      seen == [c EXCEPT !.lookupRows = Cardinality(rows)] IN
  /\ c.pc = "res_lookup"
  /\ \/ /\ SetCall(s, IF existing.data # NoId
                        THEN ResolveReturn(seen, existing.data)
                        ELSE [seen EXCEPT !.pc = "res_insert"])
        /\ UNCHANGED failures
     \/ /\ CanFail
        /\ failures' = failures + 1
        /\ SetCall(s, [c EXCEPT !.pc = "res_insert", !.lookupRows = -1])
  /\ UNCHANGED << store, nextId >>
  /\ UNCHANGED outsideRoutines

\* resolveExerciseCatalogId: insert the catalog entry; a failed insert throws
ResolveInsert(s) ==
  LET c == calls[s] IN
  /\ c.pc = "res_insert"
  /\ \/ /\ CatalogUniqueOk(c.ptId, c.trimmedName)
        /\ exercises_catalog' = exercises_catalog \cup
             { [ id |-> nextId.catalog, pt_id |-> c.ptId, name |-> c.trimmedName,
                 default_rest_seconds |-> c.exercises[c.idx].defaultRestSeconds ] }
        /\ nextId' = [nextId EXCEPT !.catalog = nextId.catalog + 1]
        /\ SetCall(s, ResolveReturn(Wrote(c, "exercises_catalog"), nextId.catalog))
        /\ UNCHANGED failures
     \/ /\ ~CatalogUniqueOk(c.ptId, c.trimmedName)
        /\ SetCall(s, Throw(c, CatalogCreateFailed))
        /\ UNCHANGED << exercises_catalog, nextId, failures >>
     \/ /\ CatalogUniqueOk(c.ptId, c.trimmedName)
        /\ CanFail
        /\ failures' = failures + 1
        /\ SetCall(s, Throw(c, CatalogCreateFailed))
        /\ UNCHANGED << exercises_catalog, nextId >>
  /\ UNCHANGED << routines, routine_exercises, routine_exercise_sets >>
  /\ UNCHANGED outsideRoutines

\* upsertRoutine: insert the routine exercise row at the current position; a
\* failed insert is logged and the exercise skipped
InsertExercise(s) ==
  LET c == calls[s]
      row == [id |-> nextId.exercise, routine_id |-> c.routineId,
              exercise_id |-> c.exerciseId, position |-> c.position]
      ok == Wrote([c EXCEPT !.routineExerciseId = nextId.exercise], "routine_exercises") IN
  /\ c.pc = "ex_insert"
  /\ \/ /\ ExerciseInsertOk(c.routineId)
        /\ routine_exercises' = routine_exercises \cup {row}
        /\ nextId' = [nextId EXCEPT !.exercise = nextId.exercise + 1]
        /\ SetCall(s, IF Len(c.exercises[c.idx].sets) > 0
                        THEN [ok EXCEPT !.pc = "sets_insert"]
                        ELSE NextPosition(ok))
        /\ UNCHANGED failures
     \/ /\ ~ExerciseInsertOk(c.routineId)
        /\ SetCall(s, Continue(c))
        /\ UNCHANGED << routine_exercises, nextId, failures >>
     \/ /\ ExerciseInsertOk(c.routineId)
        /\ CanFail
        /\ failures' = failures + 1
        /\ SetCall(s, Continue(c))
        /\ UNCHANGED << routine_exercises, nextId >>
  /\ UNCHANGED << exercises_catalog, routines, routine_exercise_sets >>
  /\ UNCHANGED outsideRoutines

\* upsertRoutine: insert the exercise's sets in one batch; a failed batch is
\* logged only
InsertSets(s) ==
  LET c == calls[s]
      setsPayload == SetsPayload(c.routineExerciseId, c.exercises[c.idx].sets)
      failed == [c EXCEPT !.skipped = c.skipped + 1] IN
  /\ c.pc = "sets_insert"
  /\ \/ /\ SetsInsertOk(c.routineExerciseId, setsPayload)
        /\ routine_exercise_sets' = routine_exercise_sets \cup setsPayload
        /\ SetCall(s, NextPosition(Wrote(c, "routine_exercise_sets")))
        /\ UNCHANGED failures
     \/ /\ ~SetsInsertOk(c.routineExerciseId, setsPayload)
        /\ SetCall(s, NextPosition(failed))
        /\ UNCHANGED << routine_exercise_sets, failures >>
     \/ /\ SetsInsertOk(c.routineExerciseId, setsPayload)
        /\ CanFail
        /\ failures' = failures + 1
        /\ SetCall(s, NextPosition(failed))
        /\ UNCHANGED routine_exercise_sets
  /\ UNCHANGED << exercises_catalog, routines, routine_exercises, nextId >>
  /\ UNCHANGED outsideRoutines

\* the handler after upsertRoutine returned: fetchRoutineDetail(routineId,
\* body.clientId), then the 200 response; a failed fetch throws into the
\* handler's catch (500)
FetchDetail(s) ==
  LET c == calls[s] IN
  /\ c.pc = "fetch"
  /\ \/ /\ c.clientId \notin {None, JsonNull}
        /\ SetCall(s, [c EXCEPT !.pc = "done", !.status = 200])
        /\ UNCHANGED failures
     \/ /\ c.clientId \in {None, JsonNull}
        /\ SetCall(s, [c EXCEPT !.pc = "done", !.status = 500])
        /\ UNCHANGED failures
     \/ /\ c.clientId \notin {None, JsonNull}
        /\ CanFail
        /\ failures' = failures + 1
        /\ SetCall(s, [c EXCEPT !.pc = "done", !.status = 500])
  /\ UNCHANGED << store, nextId >>
  /\ UNCHANGED outsideRoutines

Next ==
  \/ \E s \in Slots, pt \in PTs, req \in RequestInputs, exs \in ExerciseLists :
        StartUpsert(s, pt, req[1], req[2], exs)
  \/ \E s \in Slots, pt \in PTs, ex \in ResolveInputs : StartResolve(s, pt, ex)
  \/ \E s \in Slots : RoutineInsert(s)
  \/ \E s \in Slots : RoutineUpdate(s)
  \/ \E s \in Slots : DeleteExercises(s)
  \/ \E s \in Slots : ResolveById(s)
  \/ \E s \in Slots : ResolveLookup(s)
  \/ \E s \in Slots : ResolveInsert(s)
  \/ \E s \in Slots : InsertExercise(s)
  \/ \E s \in Slots : InsertSets(s)
  \/ \E s \in Slots : FetchDetail(s)

Spec == Init /\ [][Next]_vars


\* ============================================================ PT dashboard
\* GET /pt/dashboard with the requests that feed it: POST /pt/health-logs and
\* POST /pt/calendar.  Timestamps are milliseconds; logged_at is the store's
\* now() at the insert.  Requests are served concurrently, each awaited store
\* call one step.

MaxLogs == 2
MaxEvents == 2
MaxTicks == 1

\* 15 * 60 * 1000: the look-ahead of the upcoming-sessions query
AlertWindow == 15 * 60 * 1000

\* the server's clock when the first request arrives
DashStart == 1000

\* request bodies of POST /pt/health-logs: << pt, clientId, injuryTitle, status >>
HealthLogInputs ==
  { << "p1", "c1", "knee", "ACUTE" >>,
    << "p1", "c1", "back", "LINGERING" >>,
    << "p1", "c1", "knee", "RESOLVED" >>,
    << "p1", "c2", "knee", "ACUTE" >>,
    << "p1", "c1", "knee", "PAINFUL" >>,
    << "p1", "c1", None, "ACUTE" >> }

\* request bodies of POST /pt/calendar: << pt, clientId, type, startDate >>
EventInputs ==
  { << "p1", "c1", "session", DashStart - 1 >>,
    << "p1", "c1", "session", DashStart >>,
    << "p1", "c1", "session", DashStart + AlertWindow >>,
    << "p1", "c1", "session", DashStart + AlertWindow + 1 >>,
    << "p1", "c1", "break", DashStart >>,
    << "p1", None, "session", DashStart >>,
    << "p1", "c2", "session", DashStart >>,
    << "p2", "c2", "session", DashStart >> }

\* health_issue_status
HealthStatuses == {"ACUTE", "LINGERING", "RESOLVED"}

\* pt_clients: .eq("pt_id", pt).eq("client_id", clientId).maybeSingle()
AssignmentOf(pt, clientId) == { a \in Assigned : a[1] = pt /\ a[2] = clientId }

\* pt_clients: .eq("pt_id", pt).eq("status", "active"), mapped to client_id
ActiveClientIds(pt) == { a[2] : a \in { b \in Assigned : b[1] = pt } }

\* .order("logged_at", { ascending: false }): every order of the rows the
\* store may return them in (rows of equal logged_at come in any order)
OrderedByLoggedAtDesc(rows) ==
  { f \in [1..Cardinality(rows) -> rows] :
      /\ { f[i] : i \in 1..Cardinality(rows) } = rows
      /\ \A i, j \in 1..Cardinality(rows) :
           i < j => f[i].logged_at >= f[j].logged_at }

\* healthLogsByClient.get(clientId): the client's logs in the order returned
LogsOfClient(ordered, clientId) ==
  SelectSeq(ordered, LAMBDA log : log.client_id = clientId)

IsActiveStatus(status) == status = "ACUTE" \/ status = "LINGERING"

\* logs.find((log) => log.status === "ACUTE" || log.status === "LINGERING")
FindActive(logs) ==
  LET hits == { i \in 1..Len(logs) : IsActiveStatus(logs[i].status) } IN
  IF hits = {} THEN Null
  ELSE Some(logs[CHOOSE i \in hits : \A j \in hits : i <= j])

\* pt_calendar_events: .eq("pt_id", pt).eq("event_type", "session")
\*   .gte("start_at", new Date()).lte("start_at", Date.now() + 15 min),
\* the clock read once for each bound
UpcomingSessions(pt, now, nowAgain) ==
  { e \in pt_calendar_events :
      /\ e.pt_id = pt
      /\ e.event_type = "session"
      /\ e.start_at >= now
      /\ e.start_at <= nowAgain + AlertWindow }

\* one entry of alerts
Alert(session, issue) ==
  [ eventId |-> session.id, clientId |-> session.client_id,
    sessionStart |-> session.start_at,
    injuryTitle |-> issue.injury_title, status |-> issue.status ]

\* alerts: the upcoming sessions read, of a linked client that has an active
\* issue among the health logs read
Alerts(clientIds, upcoming, ordered) ==
  LET hasIssue(cid) == cid \in clientIds /\ FindActive(LogsOfClient(ordered, cid)) # Null IN
  { Alert(e, FindActive(LogsOfClient(ordered, e.client_id))[1]) :
      e \in { u \in upcoming : u.client_id # None /\ hasIssue(u.client_id) } }

\* activeHealthIssue / mostRecentHealthLog of one client entry
HealthSummary(log) ==
  IF log = Null THEN Null
  ELSE Some([ id |-> log[1].id, status |-> log[1].status,
              injuryTitle |-> log[1].injury_title, loggedAt |-> log[1].logged_at ])

\* clientsWithHealth, by client id (streak, weeklyGoal and routines of an
\* entry are those of fetchClientDashboard)
ClientsWithHealth(profileIds, ordered) ==
  [ cid \in profileIds |->
      LET logs == LogsOfClient(ordered, cid) IN
      [ activeHealthIssue |-> HealthSummary(FindActive(logs)),
        mostRecentHealthLog |->
          HealthSummary(IF Len(logs) = 0 THEN Null ELSE Some(logs[1])) ] ]

\* every other variable of the module, for the dashboard requests
outsideDash == << routineVars, statsVars, formatVars, logVars >>

\* time passes
Tick ==
  /\ clock < DashStart + MaxTicks
  /\ clock' = clock + 1
  /\ UNCHANGED << dashVars, flightVars, failures, outsideDash >>

\* the health-log requests that will insert a row and have not yet
HealthLogsInFlight == { q \in ReqSlots : request[q].kind = "health-log" }

\* POST /pt/health-logs by PT pt: the body is read and checked
StartHealthLog(q, pt, clientId, injuryTitle, status) ==
  /\ CanBegin(q)
  /\ Cardinality(client_health_logs) + Cardinality(HealthLogsInFlight) < MaxLogs
  /\ IF clientId = None \/ injuryTitle = None \/ status = None
          \/ status \notin HealthStatuses
       THEN Answer(q, [ kind |-> "health-log", pc |-> "done" ],
                   [ status |-> 400, kind |-> "health-log" ])
     ELSE Go(q, [ kind |-> "health-log", pc |-> "find_assignment", pt |-> pt,
                  clientId |-> clientId, injuryTitle |-> injuryTitle,
                  status |-> status ])
  /\ UNCHANGED << dashVars, clock, failures, outsideDash >>

\* health-logs, the pt_clients row of this PT and this client: a store error
\* and no row both answer 404
HealthLogFindAssignment(q) ==
  LET req == request[q] IN
  /\ req.kind = "health-log"
  /\ req.pc = "find_assignment"
  /\ \/ /\ IF AssignmentOf(req.pt, req.clientId) = {}
             THEN Answer(q, req, [ status |-> 404, kind |-> "health-log" ])
           ELSE Go(q, [ req EXCEPT !.pc = "insert" ])
        /\ UNCHANGED failures
     \/ /\ CanFail
        /\ failures' = failures + 1
        /\ Answer(q, req, [ status |-> 404, kind |-> "health-log" ])
  /\ UNCHANGED << dashVars, clock, outsideDash >>

\* health-logs, insert the client_health_logs row; logged_at is the store's
\* now()
HealthLogInsert(q) ==
  LET req == request[q]
      row == [ id |-> Cardinality(client_health_logs) + 1, client_id |-> req.clientId,
               injury_title |-> req.injuryTitle, status |-> req.status,
               logged_at |-> clock, created_by_pt |-> req.pt ] IN
  /\ req.kind = "health-log"
  /\ req.pc = "insert"
  /\ \/ /\ client_health_logs' = client_health_logs \cup {row}
        /\ Answer(q, req, [ status |-> 200, kind |-> "health-log", log |-> row ])
        /\ UNCHANGED failures
     \/ /\ CanFail
        /\ failures' = failures + 1
        /\ Answer(q, req, [ status |-> 500, kind |-> "health-log" ])
        /\ UNCHANGED client_health_logs
  /\ UNCHANGED << pt_calendar_events, clock, outsideDash >>

\* POST /pt/calendar by PT pt: one insert, then the answer
PostCalendarEvent(pt, clientId, type, startDate) ==
  LET row == [ id |-> Cardinality(pt_calendar_events) + 1, pt_id |-> pt,
               client_id |-> clientId, event_type |-> type, start_at |-> startDate ] IN
  /\ Cardinality(pt_calendar_events) < MaxEvents
  /\ \/ /\ pt_calendar_events' = pt_calendar_events \cup {row}
        /\ response' = [status |-> 200, kind |-> "event", event |-> row]
        /\ UNCHANGED failures
     \/ /\ CanFail
        /\ failures' = failures + 1
        /\ response' = [status |-> 500, kind |-> "event"]
        /\ UNCHANGED pt_calendar_events
  /\ answered' = [ kind |-> "event", pc |-> "done", pt |-> pt ]
  /\ UNCHANGED << request, client_health_logs, clock, outsideDash >>

\* GET /pt/dashboard by PT pt arrives (one dashboard request at a time: two
\* of them only read, and neither sees the other)
StartDashboard(q, pt) ==
  /\ CanBegin(q)
  /\ \A r \in ReqSlots : request[r].kind # "dashboard"
  /\ Go(q, [ kind |-> "dashboard", pc |-> "read_assignments", pt |-> pt,
             clientIds |-> {}, clientProfiles |-> {}, pending |-> {},
             healthLogs |-> << >>, now |-> 0, nowAgain |-> 0 ])
  /\ UNCHANGED << dashVars, clock, failures, outsideDash >>

\* the 500 of a dashboard read that failed
DashboardFailed(q) ==
  /\ CanFail
  /\ failures' = failures + 1
  /\ Answer(q, request[q], [ status |-> 500, kind |-> "dashboard", pt |-> request[q].pt ])

\* dashboard, the PT's active pt_clients rows; with none, the empty dashboard
DashReadAssignments(q) ==
  LET req == request[q] IN
  /\ req.kind = "dashboard"
  /\ req.pc = "read_assignments"
  /\ \/ /\ IF ActiveClientIds(req.pt) = {}
             THEN Answer(q, req, [ status |-> 200, kind |-> "dashboard", pt |-> req.pt,
                                   clients |-> << >>, alerts |-> {} ])
           ELSE Go(q, [ req EXCEPT !.pc = "read_profiles",
                                   !.clientIds = ActiveClientIds(req.pt) ])
        /\ UNCHANGED failures
     \/ DashboardFailed(q)
  /\ UNCHANGED << dashVars, clock, outsideDash >>

\* the store reads Promise.all(clientProfiles.map(fetchClientDashboard)) has
\* sent: for every profile found, fetchClientRoutines and fetchClientSessions
ClientReads(profileIds) == profileIds \X { "routines", "sessions" }

\* dashboard, the clients' profiles rows (.in("id", clientIds)); the handler
\* then sends the reads of every client found, all at once
DashReadProfiles(q) ==
  LET req == request[q]
      found == { cid \in req.clientIds : cid \in Profiles } IN
  /\ req.kind = "dashboard"
  /\ req.pc = "read_profiles"
  /\ \/ /\ Go(q, [ req EXCEPT !.pc = IF found = {} THEN "read_health_logs"
                                      ELSE "read_clients",
                               !.clientProfiles = found,
                               !.pending = ClientReads(found) ])
        /\ UNCHANGED failures
     \/ DashboardFailed(q)
  /\ UNCHANGED << dashVars, clock, outsideDash >>

\* dashboard, the store answers one of the reads sent for the clients, in any
\* order (streak, weeklyGoal and routines of an entry are not kept here); with
\* the last one answered the handler goes on.  A failed read throws, Promise.all
\* rejects and the handler's catch answers
DashReadClients(q) ==
  LET req == request[q] IN
  /\ req.kind = "dashboard"
  /\ req.pc = "read_clients"
  /\ \/ /\ \E read \in req.pending :
             Go(q, [ req EXCEPT !.pending = @ \ { read },
                                !.pc = IF req.pending = { read }
                                         THEN "read_health_logs" ELSE @ ])
        /\ UNCHANGED failures
     \/ DashboardFailed(q)
  /\ UNCHANGED << dashVars, clock, outsideDash >>

\* what the clock may show at a second reading, a moment after it showed
\* clock: the same millisecond or the next
ClockReadAgain == IF clock < DashStart + MaxTicks THEN { clock, clock + 1 } ELSE { clock }

\* dashboard, the clients' health logs, newest first; the handler then builds
\* the upcoming-sessions query, reading the clock for the lower bound
\* (new Date()) and again for the upper bound (Date.now()); time may pass
\* between the two readings
DashReadHealthLogs(q) ==
  LET req == request[q] IN
  /\ req.kind = "dashboard"
  /\ req.pc = "read_health_logs"
  /\ \/ /\ \E ordered \in OrderedByLoggedAtDesc(
                { log \in client_health_logs : log.client_id \in req.clientIds }),
                again \in ClockReadAgain :
             /\ Go(q, [ req EXCEPT !.pc = "read_events", !.healthLogs = ordered,
                                   !.now = clock, !.nowAgain = again ])
             /\ clock' = again
        /\ UNCHANGED failures
     \/ /\ DashboardFailed(q)
        /\ UNCHANGED clock
  /\ UNCHANGED << dashVars, outsideDash >>

\* dashboard, the PT's sessions that start within the window, then the answer
DashReadEvents(q) ==
  LET req == request[q] IN
  /\ req.kind = "dashboard"
  /\ req.pc = "read_events"
  /\ \/ /\ Answer(q, req, [ status |-> 200, kind |-> "dashboard", pt |-> req.pt,
                            clients |-> ClientsWithHealth(req.clientProfiles, req.healthLogs),
                            alerts |-> Alerts(req.clientIds,
                                              UpcomingSessions(req.pt, req.now, req.nowAgain),
                                              req.healthLogs) ])
        /\ UNCHANGED failures
     \/ DashboardFailed(q)
  /\ UNCHANGED << dashVars, clock, outsideDash >>

\* the calendar after POST /pt/calendar by p1 for a session with c1 that
\* starts at DashStart
SeedEvents ==
  { [ id |-> 1, pt_id |-> "p1", client_id |-> "c1", event_type |-> "session",
      start_at |-> DashStart ] }

DashInit ==
  /\ RoutineInit
  /\ failures = 0
  /\ clock = DashStart
  /\ StatsIdle
  /\ FormatIdle
  /\ client_health_logs = {}
  /\ pt_calendar_events = SeedEvents
  /\ LogIdle
  /\ FlightIdle

DashNext ==
  \/ Tick
  \/ \E q \in ReqSlots, in \in HealthLogInputs :
        StartHealthLog(q, in[1], in[2], in[3], in[4])
  \/ \E q \in ReqSlots : HealthLogFindAssignment(q)
  \/ \E q \in ReqSlots : HealthLogInsert(q)
  \/ \E in \in EventInputs : PostCalendarEvent(in[1], in[2], in[3], in[4])
  \/ \E q \in ReqSlots, pt \in PTs : StartDashboard(q, pt)
  \/ \E q \in ReqSlots : DashReadAssignments(q)
  \/ \E q \in ReqSlots : DashReadProfiles(q)
  \/ \E q \in ReqSlots : DashReadClients(q)
  \/ \E q \in ReqSlots : DashReadHealthLogs(q)
  \/ \E q \in ReqSlots : DashReadEvents(q)

DashSpec == DashInit /\ [][DashNext]_vars


\* ======================================================= client statistics
\* computeStreakStats and computeWeeklyGoal as fetchClientDashboard calls
\* them.  A timestamp is its getTime(), milliseconds since the epoch; a
\* calendar date (the "YYYY-MM-DD" part of toISOString()) is its number of
\* days since 1970-01-01, which orders and compares as the string does.

MaxSessions == 3

\* 24 * 60 * 60 * 1000
MsPerDay == 24 * 60 * 60 * 1000

\* the instant `ms` milliseconds into day number `day`
At(day, ms) == day * MsPerDay + ms
Noon == 12 * 60 * 60 * 1000
\* 23:59:59 of a day
LastSecond == MsPerDay - 1000

\* 1970-01-05 was a Monday: days 10 and 11 are Sunday 11 and Monday 12 January
\* performed_at values offered to the functions
SessionInstants ==
  { At(7, Noon), At(9, Noon), At(10, 0), At(10, LastSecond),
    At(11, 0), At(11, Noon), At(12, Noon) }

\* the readings of new Date(): every weekday at noon, the last second of a
\* Sunday and the first instant of a Monday
NowInputs ==
  { At(d, Noon) : d \in 6..12 } \cup { At(10, LastSecond), At(11, 0) }

\* profile.training_frequency_goal, and routines.length
GoalInputs == { Null, Some(0), Some(3) }
RoutineCountInputs == { 0, 4 }

\* all lists of at most n instants
RECURSIVE SessionLists(_)
SessionLists(n) ==
  IF n = 0 THEN { << >> }
  ELSE LET shorter == SessionLists(n - 1) IN
       shorter \cup { Append(l, x) : l \in { m \in shorter : Len(m) = n - 1 },
                                     x \in SessionInstants }

\* new Date(ts).toISOString().split("T")[0]
UtcDate(ms) == ms \div MsPerDay

\* new Date(dateStr + "T00:00:00.000Z").getTime()
DateStart(date) == date * MsPerDay

\* Math.round(a / b) for a >= 0, b > 0
RoundDiv(a, b) == (2 * a + b) \div (2 * b)

Max2(a, b) == IF a >= b THEN a ELSE b

\* Array.from(new Set(list)): the distinct elements in order of first occurrence
RECURSIVE UniqueInOrder(_)
UniqueInOrder(list) ==
  IF Len(list) = 0 THEN << >>
  ELSE LET before == UniqueInOrder(SubSeq(list, 1, Len(list) - 1))
           last == list[Len(list)] IN
       IF \E i \in 1..Len(before) : before[i] = last THEN before
       ELSE Append(before, last)

\* uniqueDates
UniqueDates(logs) == UniqueInOrder([i \in 1..Len(logs) |-> UtcDate(logs[i])])

\* a variant of sort() that leaves the order as it is
SortAsc_AsGiven(list) == list

\* [...list].sort()
RECURSIVE SortAsc(_)
SortAsc(list) ==
  IF Len(list) = 0 THEN << >>
  ELSE LET least == CHOOSE i \in 1..Len(list) : \A j \in 1..Len(list) : list[i] <= list[j]
           rest == [k \in 1..(Len(list) - 1) |-> IF k < least THEN list[k] ELSE list[k + 1]] IN
       << list[least] >> \o SortAsc(rest)

\* .reverse()
Reverse(list) == [i \in 1..Len(list) |-> list[Len(list) + 1 - i]]

\* the forEach over uniqueDatesAsc from element i on, with the streakCounter
\* and longestStreak reached so far
RECURSIVE LongestScan(_, _, _, _)
LongestScan(asc, i, streakCounter, longestStreak) ==
  IF i > Len(asc) THEN longestStreak
  ELSE LET diffDays == IF i = 1 THEN 0
                       ELSE RoundDiv(DateStart(asc[i]) - DateStart(asc[i - 1]), MsPerDay)
           counter == IF i = 1 THEN 1
                      ELSE IF diffDays = 1 THEN streakCounter + 1 ELSE 1 IN
       LongestScan(asc, i + 1, counter, Max2(longestStreak, counter))

\* the for loop over uniqueDatesDesc from index i on: the dates that match
\* the expected date, one day earlier each time, until the first that does not
RECURSIVE WalkBack(_, _, _)
WalkBack(desc, i, expectedDate) ==
  IF i > Len(desc) THEN 0
  ELSE IF desc[i] = expectedDate THEN 1 + WalkBack(desc, i + 1, expectedDate - 1)
  ELSE 0

\* a variant that counts back from the latest date whether or not it is today
CurrentStreak_FromLatest(desc, today) ==
  1 + WalkBack(desc, 2, desc[1] - 1)

\* currentStreak, for a non-empty uniqueDatesDesc
CurrentStreak(desc, today) ==
  IF desc[1] = today THEN 1 + WalkBack(desc, 2, today - 1) ELSE 0

\* a variant that counts distinct dates
TotalWorkouts_Distinct(logs) == Len(UniqueDates(logs))

\* totalWorkouts: sessionLogs.length
TotalWorkouts(logs) == Len(logs)

\* computeStreakStats(sessionLogs), with `now` the reading of new Date()
computeStreakStats(logs, now) ==
  IF Len(logs) = 0
    THEN [ currentStreak |-> 0, longestStreak |-> 0,
           lastWorkoutDate |-> Null, totalWorkouts |-> 0 ]
  ELSE LET uniqueDatesAsc == SortAsc(UniqueDates(logs))
           uniqueDatesDesc == Reverse(SortAsc(UniqueDates(logs)))
           todayStr == UtcDate(now) IN
       [ currentStreak |-> CurrentStreak(uniqueDatesDesc, todayStr),
         longestStreak |-> LongestScan(uniqueDatesAsc, 1, 0, 0),
         lastWorkoutDate |-> Some(uniqueDatesDesc[1]),
         totalWorkouts |-> TotalWorkouts(logs) ]

\* getUTCDay(): 0 is Sunday; 1970-01-01 was a Thursday
UtcDay(ms) == (UtcDate(ms) + 4) % 7

\* a variant whose week starts on Sunday
startOfWeek_Sunday(date) ==
  DateStart(UtcDate(date)) - UtcDay(date) * MsPerDay

\* startOfWeek(date)
startOfWeek(date) ==
  LET result == DateStart(UtcDate(date))
      day == UtcDay(result)
      diff == (day + 6) % 7 IN
  result - diff * MsPerDay

\* a variant that takes the profile's goal whenever it is set
GoalOf_ProfileFirst(prof, count) ==
  IF prof.training_frequency_goal # Null
    THEN prof.training_frequency_goal[1] ELSE count

\* goal: the profile's training_frequency_goal if truthy and > 0, else routineCount
GoalOf(prof, count) ==
  IF /\ prof.training_frequency_goal # Null
     /\ prof.training_frequency_goal[1] # 0
     /\ prof.training_frequency_goal[1] > 0
    THEN prof.training_frequency_goal[1] ELSE count

\* computeWeeklyGoal(profile, sessionLogs, routineCount), with `now` the
\* reading of new Date(); weekStart is kept as the instant its ISO string names
computeWeeklyGoal(prof, logs, count, now) ==
  LET weekStart == startOfWeek(now)
      weekEnd == weekStart + 7 * MsPerDay
      completed == Cardinality({ i \in 1..Len(logs) :
                                   logs[i] >= weekStart /\ logs[i] < weekEnd }) IN
  [ goal |-> GoalOf(prof, count), completed |-> completed, weekStart |-> weekStart ]

outsideStats == << routineVars, failures, formatVars, dashVars, logVars, flightVars >>

\* const streak = computeStreakStats(sessions)
ComputeStreak ==
  /\ streak = Null
  /\ streak' = Some(computeStreakStats(sessionLogs, clock))
  /\ UNCHANGED << clock, sessionLogs, profile, routineCount, weeklyGoal, outsideStats >>

\* const weeklyGoal = computeWeeklyGoal(profile, sessions, routines.length)
ComputeWeeklyGoal ==
  /\ weeklyGoal = Null
  /\ weeklyGoal' = Some(computeWeeklyGoal(profile, sessionLogs, routineCount, clock))
  /\ UNCHANGED << clock, sessionLogs, profile, routineCount, streak, outsideStats >>

StatsInit ==
  /\ RoutineInit
  /\ failures = 0
  /\ clock \in NowInputs
  /\ sessionLogs \in SessionLists(MaxSessions)
  /\ profile \in [training_frequency_goal : GoalInputs]
  /\ routineCount \in RoutineCountInputs
  /\ streak = Null
  /\ weeklyGoal = Null
  /\ FormatIdle
  /\ DashIdle
  /\ LogIdle
  /\ FlightIdle

StatsNext == ComputeStreak \/ ComputeWeeklyGoal

StatsSpec == StatsInit /\ [][StatsNext]_vars


\* ============================================================ routine view
\* formatSets and formatRepsFallback.  Strings are sequences of characters;
\* an absent routine_exercise_sets and an empty one are the same empty list.

MaxSets == 3


\* a string that is neither null nor empty
TruthyString(opt) == opt # Null /\ opt[1] # << >>

\* a ?? b
Coalesce(a, b) == IF a # Null THEN a ELSE b

\* a variant without the `min !== max` test: equal bounds give "8-8"
formatRepsFallback_NoEqualTest(min, max) ==
  IF TruthyNumber(min) /\ TruthyNumber(max)
    THEN NumberToString(min[1]) \o << "-" >> \o NumberToString(max[1])
  ELSE IF TruthyNumber(min) THEN NumberToString(min[1])
  ELSE << "1", "0" >>

\* formatRepsFallback(min, max)
formatRepsFallback(min, max) ==
  IF TruthyNumber(min) /\ TruthyNumber(max) /\ min[1] # max[1]
    THEN NumberToString(min[1]) \o << "-" >> \o NumberToString(max[1])
  ELSE IF TruthyNumber(min) THEN NumberToString(min[1])
  ELSE << "1", "0" >>

\* restSeconds != null ? String(restSeconds) : ""
RestString(restSeconds) ==
  IF restSeconds # Null THEN NumberToString(restSeconds[1]) ELSE << >>

\* .sort((a, b) => a.set_number - b.set_number): a stable sort
RECURSIVE SortBySetNumber(_)
SortBySetNumber(rows) ==
  IF Len(rows) = 0 THEN << >>
  ELSE LET least == CHOOSE i \in 1..Len(rows) :
                      /\ \A j \in 1..Len(rows) : rows[i].set_number <= rows[j].set_number
                      /\ \A j \in 1..(i - 1) : rows[j].set_number # rows[i].set_number
           rest == [k \in 1..(Len(rows) - 1) |-> IF k < least THEN rows[k] ELSE rows[k + 1]] IN
       << rows[least] >> \o SortBySetNumber(rest)

\* a variant that looks at the numeric reps before the rep-range string
ExplicitSet_RepsFirst(exercise, defaultRest, set) ==
  [ setNumber |-> set.set_number,
    reps |-> IF TruthyNumber(set.target_reps) THEN NumberToString(set.target_reps[1])
             ELSE IF TruthyString(set.target_rep_range) THEN set.target_rep_range[1]
             ELSE formatRepsFallback(exercise.prescribed_reps_min,
                                     exercise.prescribed_reps_max),
    rest |-> RestString(Coalesce(set.target_rest_seconds,
                          Coalesce(exercise.prescribed_rest_seconds, defaultRest))),
    targetWeight |-> Coalesce(set.target_weight, exercise.prescribed_weight) ]

\* one explicit set row of the view
ExplicitSet(exercise, defaultRest, set) ==
  [ setNumber |-> set.set_number,
    reps |-> IF TruthyString(set.target_rep_range) THEN set.target_rep_range[1]
             ELSE IF TruthyNumber(set.target_reps) THEN NumberToString(set.target_reps[1])
             ELSE formatRepsFallback(exercise.prescribed_reps_min,
                                     exercise.prescribed_reps_max),
    rest |-> RestString(Coalesce(set.target_rest_seconds,
                          Coalesce(exercise.prescribed_rest_seconds, defaultRest))),
    targetWeight |-> Coalesce(set.target_weight, exercise.prescribed_weight) ]

\* a variant that synthesizes three sets when prescribed_sets is absent
TotalSets_DefaultThree(exercise) ==
  IF exercise.prescribed_sets # Null THEN exercise.prescribed_sets[1] ELSE 3

\* totalSets: exercise.prescribed_sets ?? 0
TotalSets(exercise) ==
  IF exercise.prescribed_sets # Null THEN exercise.prescribed_sets[1] ELSE 0

\* formatSets(exercise, defaultRestSeconds)
formatSets(exercise, defaultRest) ==
  LET sets == exercise.routine_exercise_sets IN
  IF Len(sets) > 0
    THEN LET sorted == SortBySetNumber(sets) IN
         [ i \in 1..Len(sorted) |-> ExplicitSet(exercise, defaultRest, sorted[i]) ]
  ELSE [ index \in 1..TotalSets(exercise) |->
           [ setNumber |-> index,
             reps |-> formatRepsFallback(exercise.prescribed_reps_min,
                                         exercise.prescribed_reps_max),
             rest |-> RestString(Coalesce(exercise.prescribed_rest_seconds, defaultRest)),
             targetWeight |-> exercise.prescribed_weight ] ]

\* a routine_exercise_sets row as the routine query selects it
SetRow(n, reps, range, weight, rest) ==
  [ set_number |-> n, target_reps |-> reps, target_rep_range |-> range,
    target_weight |-> weight, target_rest_seconds |-> rest ]

\* the nested set rows offered: none, one, and two returned out of order
\* (without and with numeric reps)
SetRowInputs ==
  { << >>,
    << SetRow(1, Some(5), Null, Some(40), Some(120)) >>,
    << SetRow(2, Null, Some(<< "6", "-", "8" >>), Null, Null),
       SetRow(1, Null, Null, Null, Null) >>,
    << SetRow(2, Some(5), Some(<< "6", "-", "8" >>), Null, Null),
       SetRow(1, Some(12), Null, Some(20), Some(0)) >> }

RepsInputs == { Null, Some(8), Some(12) }
RestInputs == { Null, Some(0), Some(90) }
WeightInputs == { Null, Some(20) }

\* the routine_exercises rows offered
ExerciseRowInputs ==
  [ prescribed_sets : { Null } \cup { Some(n) : n \in 0..MaxSets },
    prescribed_reps_min : RepsInputs,
    prescribed_reps_max : RepsInputs,
    prescribed_rest_seconds : RestInputs,
    prescribed_weight : WeightInputs,
    routine_exercise_sets : SetRowInputs ]

outsideFormat == << routineVars, failures, clock, statsVars, dashVars, logVars, flightVars >>

\* the exercise row after formatSets has run on it: Array.prototype.sort
\* sorts the row's nested set rows in place
SortedInPlace(exercise) ==
  IF Len(exercise.routine_exercise_sets) > 0
    THEN [ exercise EXCEPT !.routine_exercise_sets = SortBySetNumber(@) ]
  ELSE exercise

\* sets: formatSets(exercise, defaultRestSeconds)
FormatSets ==
  /\ formatted = Null
  /\ formatted' = Some(formatSets(exerciseRow[1], defaultRestSeconds))
  /\ exerciseRow' = Some(SortedInPlace(exerciseRow[1]))
  /\ UNCHANGED << defaultRestSeconds, outsideFormat >>

FormatInit ==
  /\ RoutineInit
  /\ failures = 0
  /\ clock = 0
  /\ StatsIdle
  /\ exerciseRow \in { Some(e) : e \in ExerciseRowInputs }
  /\ defaultRestSeconds \in { Null, Some(60) }
  /\ formatted = Null
  /\ DashIdle
  /\ LogIdle
  /\ FlightIdle

FormatNext == FormatSets

FormatSpec == FormatInit /\ [][FormatNext]_vars


\* ============================== workout logging, accounts of new clients
\* POST /client/log-workout, POST /auth/signup, POST /pt/create-client and
\* POST /pt/update-client.  The server serves requests concurrently: each
\* awaited store call is one step, and the steps of the requests in flight
\* (and, next to log-workout, of one routine request) interleave.

MaxWorkouts == 2
MaxAccounts == 1

\* the server's clock during these requests: Monday 12 January 1970, noon
LogNow == At(11, Noon)

\* training_frequency_goal of a client profile, as signup and create-client
\* set it
ClientGoal == 3

\* one element of body.exercises
LoggedExercise(reId, exId, name, k) ==
  [ routineExerciseId |-> reId, exerciseId |-> exId, name |-> name, sets |-> k ]

\* bodies of POST /client/log-workout: << client, routineId, exercises, date >>
LogWorkoutInputs ==
  { << "c1", 1, << >>, Null >>,
    << "c1", 1, << LoggedExercise(1, NoId, Null, 2),
                   LoggedExercise(NoId, NoId, Some(<< "a", "b" >>), 1),
                   LoggedExercise(NoId, 9, Null, 1) >>, Some(At(10, Noon)) >>,
    << "c1", 2, << >>, Null >>,
    << "c2", 1, << >>, Null >> }

\* bodies of POST /pt/create-client: << pt, name, email >>
CreateClientInputs ==
  { << "p1", << "N" >>, << "N", "@", "x" >> >>,
    << "p2", << "n" >>, << "n", "@", "x" >> >>,
    << "p1", << >>, << "n", "@", "x" >> >> }

\* bodies of POST /auth/signup: << email, name, role >> (a password is given)
SignupInputs ==
  { << << "N", "@", "x" >>, << "N" >>, "client" >>,
    << << "n", "@", "x" >>, << "n" >>, "admin" >>,
    << << "n", "@", "x" >>, << >>, "client" >> }

\* bodies of POST /pt/update-client: << pt, clientId, name, email >>; clients
\* are named by the id of their account, an absent name or email is Null
UpdateClientInputs ==
  { << "p2", "u1", Null, Some(<< "M", "@", "x" >>) >>,
    << "p1", "u1", Some(<< "k" >>), Null >>,
    << "p1", "c1", Null, Some(<< "N", "@", "x" >>) >>,
    << "p1", None, Null, Null >> }

\* the routine requests served next to them: << pt, routineId, clientId,
\* exercises >>, a POST of a second routine for c1 and a PUT of routine 1,
\* both without exercises
LogRoutineInputs ==
  { << "p1", NoId, "c1", << >> >>,
    << "p1", 1, "c1", << >> >> }

\* the rows of a set in one order, for results that are sorted by a unique key
\* (or reduced to a set) afterwards
RECURSIVE SeqOfSet(_)
SeqOfSet(rows) ==
  IF rows = {} THEN << >>
  ELSE LET r == CHOOSE x \in rows : TRUE IN << r >> \o SeqOfSet(rows \ {r})

\* a select without ORDER BY: the rows in any order
RECURSIVE Orders(_)
Orders(rows) ==
  IF rows = {} THEN { << >> }
  ELSE UNION { { << r >> \o rest : rest \in Orders(rows \ {r}) } : r \in rows }

\* .sort((a, b) => a.position - b.position): a stable sort
RECURSIVE SortByPosition(_)
SortByPosition(rows) ==
  IF Len(rows) = 0 THEN << >>
  ELSE LET least == CHOOSE i \in 1..Len(rows) :
                      /\ \A j \in 1..Len(rows) : rows[i].position <= rows[j].position
                      /\ \A j \in 1..(i - 1) : rows[j].position # rows[i].position
           rest == [k \in 1..(Len(rows) - 1) |-> IF k < least THEN rows[k] ELSE rows[k + 1]] IN
       << rows[least] >> \o SortByPosition(rest)

\* exercise.exercise?.name ?? "Exercise"
CatalogNameOf(exerciseId) ==
  IF \E c \in exercises_catalog : c.id = exerciseId
    THEN (CHOOSE c \in exercises_catalog : c.id = exerciseId).name
  ELSE << "E", "x", "e", "r", "c", "i", "s", "e" >>

\* the nested routine_exercises rows of a routine, in the orders the select
\* (which names no order for them) may return them
NestedExerciseRows(routine) ==
  Orders({ r \in routine_exercises : r.routine_id = routine.id })

\* one RoutineSummary of fetchClientRoutines (id, ptId, clientId and, per
\* exercise, id, exerciseId and name), the nested rows returned as `rows`
RoutineSummaryOf(routine, rows) ==
  LET sorted == SortByPosition(rows) IN
  [ id |-> routine.id, ptId |-> routine.pt_id, clientId |-> routine.client_id,
    exercises |-> [ i \in 1..Len(sorted) |->
                      [ id |-> sorted[i].id, exerciseId |-> sorted[i].exercise_id,
                        name |-> CatalogNameOf(sorted[i].exercise_id) ] ] ]

\* fetchClientRoutines(clientId): the client's routines (is_active defaults
\* to true and is never changed)
ClientRoutines(clientId) == { r \in routines : r.client_id = clientId }

\* a variant that looks the routine up among all routines, not the client's
RoutineDetail_AnyClient(routineId, clientId) ==
  LET found == { r \in routines : r.id = routineId } IN
  IF found = {} THEN { Null }
  ELSE UNION { { Some(RoutineSummaryOf(r, rows)) : rows \in NestedExerciseRows(r) } :
               r \in found }

\* fetchRoutineDetail(routineId, clientId): what the read may return, null
\* when the routine is not among the client's
RoutineDetail(routineId, clientId) ==
  LET found == { r \in ClientRoutines(clientId) : r.id = routineId } IN
  IF found = {} THEN { Null }
  ELSE UNION { { Some(RoutineSummaryOf(r, rows)) : rows \in NestedExerciseRows(r) } :
               r \in found }

\* routine.exercises.find(...) for one logged exercise: the index of the first
\* match by routine exercise id, catalog id or name, 0 when there is none
FindRoutineExercise(routine, exercise) ==
  LET hits == { i \in 1..Len(routine.exercises) :
                  \/ routine.exercises[i].id = exercise.routineExerciseId
                  \/ routine.exercises[i].exerciseId = exercise.exerciseId
                  \/ /\ exercise.name # Null
                     /\ routine.exercises[i].name = exercise.name[1] } IN
  IF hits = {} THEN 0 ELSE CHOOSE i \in hits : \A j \in hits : i <= j

\* setsPayload: for every logged exercise found in the routine, one row per
\* logged set, set_number = index + 1 (item tells the logged exercises apart)
LogSetsPayload(sessionLogId, routine, exercises) ==
  { [ session_log_id |-> sessionLogId,
      exercise_id |-> routine.exercises[FindRoutineExercise(routine, exercises[p[1]])].exerciseId,
      set_number |-> p[2], item |-> p[1] ] :
      p \in { q \in (1..Len(exercises)) \X (1..MaxSets) :
                /\ FindRoutineExercise(routine, exercises[q[1]]) # 0
                /\ q[2] <= exercises[q[1]].sets } }

\* fetchClientSessions(clientId): the performed_at values, newest first
ClientSessions(clientId) ==
  LET rows == SeqOfSet({ r \in session_logs : r.client_id = clientId }) IN
  Reverse(SortAsc([ i \in 1..Len(rows) |-> rows[i].performed_at ]))

\* the failure of the notification insert propagated to the caller (a variant)
NotificationFailed_Thrown(req) ==
  [ req EXCEPT !.notified = "failed", !.threw = TRUE ]

\* createNotification when the insert returns an error: console.error only
NotificationFailed(req) == [ req EXCEPT !.notified = "failed" ]

\* createNotification when the insert succeeds
NotificationRecorded(req) == [ req EXCEPT !.notified = "recorded" ]

\* a notifications row
Notification(userId, type, clientId) ==
  [ id |-> Cardinality(notifications) + 1, user_id |-> userId, type |-> type,
    client_id |-> clientId ]

\* log-workout (with the routine requests) reads and writes the routine and
\* session tables; signup, create-client and update-client write the accounts
\* and the PT dashboard, served next to them, reads the accounts: a run takes
\* its requests from one of the two groups
WorkoutKinds == { "log-workout" }
AccountKinds == { "signup", "create-client", "update-client", "dashboard" }

\* the requests in flight and the request answered last are of these kinds
Served(kinds) ==
  /\ \A r \in ReqSlots : request[r].kind \in kinds \cup { "none" }
  /\ answered.kind \in kinds \cup { "none" }

\* a log-workout request may begin
WorkoutsServed == Served(WorkoutKinds)

\* a signup, create-client or update-client request may begin
AccountsServed == Served(AccountKinds) /\ calls[1].pc = "idle"

logTables == << session_logs, session_log_sets, notifications, accounts >>

outsideLog == << routineVars, statsVars, formatVars, client_health_logs,
                 pt_calendar_events, clock >>

\* the log-workout requests that have stored no session yet
WorkoutsInFlight ==
  { q \in ReqSlots : request[q].kind = "log-workout" /\ request[q].sessionLogId = NoId }

\* POST /client/log-workout by a client: the body is read
StartLogWorkout(q, client, routineId, exercises, date) ==
  /\ CanBegin(q)
  /\ Cardinality(session_logs) + Cardinality(WorkoutsInFlight) < MaxWorkouts
  /\ Go(q, [ kind |-> "log-workout", pc |-> "fetch_routine", client |-> client,
             routineId |-> routineId, exercises |-> exercises,
             performedAt |-> IF date # Null THEN date[1] ELSE clock,
             routine |-> Null, ptId |-> None, sessionLogId |-> NoId,
             sessions |-> Null, routineCount |-> Null,
             streak |-> Null, weeklyGoal |-> Null,
             notified |-> "no", threw |-> FALSE ])
  /\ UNCHANGED << logTables, failures, outsideLog >>

\* const routine = await fetchRoutineDetail(routineId, profile.id)
LogFetchRoutine(q) ==
  LET req == request[q] IN
  /\ req.kind = "log-workout"
  /\ req.pc = "fetch_routine"
  /\ \/ /\ \E detail \in RoutineDetail(req.routineId, req.client) :
             IF detail = Null
               THEN Answer(q, req, [ status |-> 404, kind |-> "log-workout" ])
             ELSE Go(q, [ req EXCEPT !.pc = "insert_log", !.routine = detail,
                                     !.ptId = detail[1].ptId ])
        /\ UNCHANGED failures
     \/ /\ CanFail
        /\ failures' = failures + 1
        /\ Answer(q, req, [ status |-> 500, kind |-> "log-workout" ])
  /\ UNCHANGED << logTables, outsideLog >>

\* the session insert's error only logged, as the sets insert's is: the
\* handler goes on to the statistics and the notification
LogInsertSession_ErrorLoggedOnly(q) ==
  LET req == request[q]
      row == [ id |-> Cardinality(session_logs) + 1, routine_id |-> req.routineId,
               client_id |-> req.client, pt_id |-> req.ptId,
               performed_at |-> req.performedAt ]
      payload == LogSetsPayload(row.id, req.routine[1], req.exercises) IN
  /\ req.kind = "log-workout"
  /\ req.pc = "insert_log"
  /\ \/ /\ session_logs' = session_logs \cup {row}
        /\ Go(q, [ req EXCEPT !.sessionLogId = row.id,
                              !.pc = IF payload # {} THEN "insert_sets" ELSE "refresh" ])
        /\ UNCHANGED failures
     \/ /\ CanFail
        /\ failures' = failures + 1
        /\ Go(q, [ req EXCEPT !.pc = "refresh" ])
        /\ UNCHANGED session_logs
  /\ UNCHANGED << session_log_sets, notifications, accounts, outsideLog >>

\* insert the session_logs row
LogInsertSession(q) ==
  LET req == request[q]
      row == [ id |-> Cardinality(session_logs) + 1, routine_id |-> req.routineId,
               client_id |-> req.client, pt_id |-> req.ptId,
               performed_at |-> req.performedAt ]
      payload == LogSetsPayload(row.id, req.routine[1], req.exercises) IN
  /\ req.kind = "log-workout"
  /\ req.pc = "insert_log"
  /\ \/ /\ session_logs' = session_logs \cup {row}
        /\ Go(q, [ req EXCEPT !.sessionLogId = row.id,
                              !.pc = IF payload # {} THEN "insert_sets" ELSE "refresh" ])
        /\ UNCHANGED failures
     \/ /\ CanFail
        /\ failures' = failures + 1
        /\ Answer(q, req, [ status |-> 500, kind |-> "log-workout" ])
        /\ UNCHANGED session_logs
  /\ UNCHANGED << session_log_sets, notifications, accounts, outsideLog >>

\* insert the session_log_sets rows in one batch; a failure is logged only
LogInsertSets(q) ==
  LET req == request[q] IN
  /\ req.kind = "log-workout"
  /\ req.pc = "insert_sets"
  /\ \/ /\ session_log_sets' = session_log_sets \cup
             LogSetsPayload(req.sessionLogId, req.routine[1], req.exercises)
        /\ UNCHANGED failures
     \/ /\ CanFail
        /\ failures' = failures + 1
        /\ UNCHANGED session_log_sets
  /\ Go(q, [ req EXCEPT !.pc = "refresh" ])
  /\ UNCHANGED << session_logs, notifications, accounts, outsideLog >>

\* Promise.all has both results: the statistics of the response are computed
Refreshed(req) ==
  IF req.sessions # Null /\ req.routineCount # Null
    THEN [ req EXCEPT
             !.pc = "notify",
             !.streak = Some(computeStreakStats(req.sessions[1], clock)),
             !.weeklyGoal = Some(computeWeeklyGoal(
                 [training_frequency_goal |-> Some(ClientGoal)],
                 req.sessions[1], req.routineCount[1], clock)) ]
  ELSE req

\* refresh, fetchClientSessions(profile.id): the read is answered; a failed
\* read rejects the Promise.all and the handler's catch answers 500
LogReadSessions(q) ==
  LET req == request[q] IN
  /\ req.kind = "log-workout"
  /\ req.pc = "refresh"
  /\ req.sessions = Null
  /\ \/ /\ Go(q, Refreshed([ req EXCEPT !.sessions = Some(ClientSessions(req.client)) ]))
        /\ UNCHANGED failures
     \/ /\ CanFail
        /\ failures' = failures + 1
        /\ Answer(q, req, [ status |-> 500, kind |-> "log-workout" ])
  /\ UNCHANGED << logTables, outsideLog >>

\* refresh, fetchClientRoutines(profile.id): the read is answered, routines.length
\* is kept
LogReadRoutines(q) ==
  LET req == request[q] IN
  /\ req.kind = "log-workout"
  /\ req.pc = "refresh"
  /\ req.routineCount = Null
  /\ \/ /\ Go(q, Refreshed([ req EXCEPT
                               !.routineCount = Some(Cardinality(ClientRoutines(req.client))) ]))
        /\ UNCHANGED failures
     \/ /\ CanFail
        /\ failures' = failures + 1
        /\ Answer(q, req, [ status |-> 500, kind |-> "log-workout" ])
  /\ UNCHANGED << logTables, outsideLog >>

\* what the handler returns once createNotification has come back: its catch
\* block answers 500 if anything was thrown
LogWorkoutResponse(req) ==
  IF req.threw THEN [ status |-> 500, kind |-> "log-workout" ]
  ELSE [ status |-> 200, kind |-> "log-workout", success |-> TRUE,
         streak |-> req.streak[1], weeklyGoal |-> req.weeklyGoal[1] ]

\* notify the PT (routines.pt_id is NOT NULL, so ptId is set), then answer
LogNotify(q) ==
  LET req == request[q] IN
  /\ req.kind = "log-workout"
  /\ req.pc = "notify"
  /\ \/ /\ notifications' = notifications \cup
             { Notification(req.ptId, "client_logged_workout", req.client) }
        /\ Answer(q, NotificationRecorded(req), LogWorkoutResponse(NotificationRecorded(req)))
     \/ /\ UNCHANGED notifications
        /\ Answer(q, NotificationFailed(req), LogWorkoutResponse(NotificationFailed(req)))
  /\ UNCHANGED << session_logs, session_log_sets, accounts, failures, outsideLog >>


\* auth.users: no two accounts with one email
AuthEmailFree(email, id) ==
  \A a \in accounts : a.id # id => LowerStr(a.email) # LowerStr(email)

\* the requests that will create an account and have not yet
AccountsInFlight ==
  { q \in ReqSlots : request[q].kind \in {"create-client", "signup"}
                       /\ request[q].userId = None }

\* the accounts created by signup and create-client
CreatedAccounts == { a \in accounts : a.id \notin PTs \cup Clients }

\* a request for an account of this email may begin: the accounts created and
\* asked for are fewer than MaxAccounts, or the email is registered already
MayAskAccount(email) ==
  \/ Cardinality(CreatedAccounts) + Cardinality(AccountsInFlight) < MaxAccounts
  \/ ~AuthEmailFree(email, None)

\* unique index profiles_email_unique on lower(email)
ProfileEmailFree(email, id) ==
  \A a \in accounts :
    (a.id # id /\ a.profile # Null) => LowerStr(a.profile[1].email) # LowerStr(email)

\* the account of this id with one field changed
WithAccount(id, field, value) ==
  { IF a.id = id THEN [ a EXCEPT ![field] = value ] ELSE a : a \in accounts }

\* supabase.auth.admin.createUser({email, ...}): the auth.users row
NewAccount(email, role) ==
  [ id |-> AccountIds[Cardinality(CreatedAccounts) + 1], email |-> email, role |-> role,
    profile |-> Null, assigned_to |-> None ]

\* POST /auth/signup: the body is read and checked
StartSignup(q, email, name, role) ==
  /\ CanBegin(q)
  /\ MayAskAccount(email)
  /\ IF email = << >> \/ name = << >> \/ role \notin {"pt", "client"}
       THEN Answer(q, [ kind |-> "signup", pc |-> "done", userId |-> None ],
                   [ status |-> 400, kind |-> "signup" ])
     ELSE Go(q, [ kind |-> "signup", pc |-> "create_user", name |-> name,
                  email |-> LowerStr(email), role |-> role, userId |-> None ])
  /\ UNCHANGED << logTables, failures, outsideLog >>

\* signup, supabase.auth.admin.createUser: refused for an email already
\* registered
SignupCreateUser(q) ==
  LET req == request[q]
      row == NewAccount(req.email, req.role) IN
  /\ req.kind = "signup"
  /\ req.pc = "create_user"
  /\ \/ /\ IF AuthEmailFree(req.email, None)
             THEN /\ accounts' = accounts \cup { row }
                  /\ Go(q, [ req EXCEPT !.pc = "insert_profile", !.userId = row.id ])
           ELSE /\ Answer(q, req, [ status |-> 400, kind |-> "signup" ])
                /\ UNCHANGED accounts
        /\ UNCHANGED failures
     \/ /\ CanFail
        /\ failures' = failures + 1
        /\ Answer(q, req, [ status |-> 400, kind |-> "signup" ])
        /\ UNCHANGED accounts
  /\ UNCHANGED << session_logs, session_log_sets, notifications, outsideLog >>

\* signup, insert the profiles row, then answer with the user
SignupInsertProfile(q) ==
  LET req == request[q] IN
  /\ req.kind = "signup"
  /\ req.pc = "insert_profile"
  /\ \/ /\ IF ProfileEmailFree(req.email, req.userId)
             THEN /\ accounts' = WithAccount(req.userId, "profile",
                                   Some([ full_name |-> req.name, email |-> req.email ]))
                  /\ Answer(q, req, [ status |-> 200, kind |-> "signup",
                                      user |-> [ id |-> req.userId, email |-> req.email,
                                                 role |-> req.role, name |-> req.name ] ])
           ELSE /\ Answer(q, req, [ status |-> 400, kind |-> "signup" ])
                /\ UNCHANGED accounts
        /\ UNCHANGED failures
     \/ /\ CanFail
        /\ failures' = failures + 1
        /\ Answer(q, req, [ status |-> 400, kind |-> "signup" ])
        /\ UNCHANGED accounts
  /\ UNCHANGED << session_logs, session_log_sets, notifications, outsideLog >>

\* POST /pt/create-client by a PT: the body is read and checked
StartCreateClient(q, pt, name, email) ==
  /\ CanBegin(q)
  /\ MayAskAccount(email)
  /\ IF name = << >> \/ email = << >>
       THEN Answer(q, [ kind |-> "create-client", pc |-> "done", userId |-> None,
                        notified |-> "no" ],
                   [ status |-> 400, kind |-> "create-client" ])
     ELSE Go(q, [ kind |-> "create-client", pc |-> "create_user", pt |-> pt,
                  name |-> name, email |-> LowerStr(email), userId |-> None,
                  notified |-> "no", threw |-> FALSE ])
  /\ UNCHANGED << logTables, failures, outsideLog >>

\* supabase.auth.admin.createUser: refused for an email already registered
CreateAuthUser(q) ==
  LET req == request[q]
      row == NewAccount(req.email, "client") IN
  /\ req.kind = "create-client"
  /\ req.pc = "create_user"
  /\ \/ /\ IF AuthEmailFree(req.email, None)
             THEN /\ accounts' = accounts \cup { row }
                  /\ Go(q, [ req EXCEPT !.pc = "insert_profile", !.userId = row.id ])
           ELSE /\ Answer(q, req, [ status |-> 400, kind |-> "create-client" ])
                /\ UNCHANGED accounts
        /\ UNCHANGED failures
     \/ /\ CanFail
        /\ failures' = failures + 1
        /\ Answer(q, req, [ status |-> 400, kind |-> "create-client" ])
        /\ UNCHANGED accounts
  /\ UNCHANGED << session_logs, session_log_sets, notifications, outsideLog >>

\* insert the client's profiles row
CreateProfile(q) ==
  LET req == request[q] IN
  /\ req.kind = "create-client"
  /\ req.pc = "insert_profile"
  /\ \/ /\ IF ProfileEmailFree(req.email, req.userId)
             THEN /\ accounts' = WithAccount(req.userId, "profile",
                                   Some([ full_name |-> req.name, email |-> req.email ]))
                  /\ Go(q, [ req EXCEPT !.pc = "insert_assignment" ])
           ELSE /\ Answer(q, req, [ status |-> 400, kind |-> "create-client" ])
                /\ UNCHANGED accounts
        /\ UNCHANGED failures
     \/ /\ CanFail
        /\ failures' = failures + 1
        /\ Answer(q, req, [ status |-> 400, kind |-> "create-client" ])
        /\ UNCHANGED accounts
  /\ UNCHANGED << session_logs, session_log_sets, notifications, outsideLog >>

\* insert the pt_clients row; a failure is logged only
CreateAssignment(q) ==
  LET req == request[q] IN
  /\ req.kind = "create-client"
  /\ req.pc = "insert_assignment"
  /\ \/ /\ accounts' = WithAccount(req.userId, "assigned_to", req.pt)
        /\ UNCHANGED failures
     \/ /\ CanFail
        /\ failures' = failures + 1
        /\ UNCHANGED accounts
  /\ Go(q, [ req EXCEPT !.pc = "notify" ])
  /\ UNCHANGED << session_logs, session_log_sets, notifications, outsideLog >>

\* what the handler returns once createNotification has come back
CreateClientResponse(req) ==
  IF req.threw THEN [ status |-> 500, kind |-> "create-client" ]
  ELSE [ status |-> 200, kind |-> "create-client",
         client |-> [ id |-> req.userId, name |-> req.name, email |-> req.email ] ]

\* notify the PT, then answer
CreateNotify(q) ==
  LET req == request[q] IN
  /\ req.kind = "create-client"
  /\ req.pc = "notify"
  /\ \/ /\ notifications' = notifications \cup
             { Notification(req.pt, "client_created", req.userId) }
        /\ Answer(q, NotificationRecorded(req), CreateClientResponse(NotificationRecorded(req)))
     \/ /\ UNCHANGED notifications
        /\ Answer(q, NotificationFailed(req), CreateClientResponse(NotificationFailed(req)))
  /\ UNCHANGED << session_logs, session_log_sets, accounts, failures, outsideLog >>

\* POST /pt/update-client by a PT: the body is read and checked
StartUpdateClient(q, pt, clientId, name, email) ==
  /\ CanBegin(q)
  /\ IF clientId = None
       THEN Answer(q, [ kind |-> "update-client", pc |-> "done" ],
                   [ status |-> 400, kind |-> "update-client" ])
     ELSE Go(q, [ kind |-> "update-client", pc |-> "find_assignment", pt |-> pt,
                  clientId |-> clientId, name |-> name,
                  email |-> IF email # Null THEN Some(LowerStr(email[1])) ELSE Null ])
  /\ UNCHANGED << logTables, failures, outsideLog >>

\* a name or an email that is given and not empty
Given(text) == text # Null /\ text[1] # << >>

\* update-client, the pt_clients row of this PT and this client: a store error
\* and no row both answer 404
UpdateFindAssignment(q) ==
  LET req == request[q] IN
  /\ req.kind = "update-client"
  /\ req.pc = "find_assignment"
  /\ \/ /\ IF AssignmentOf(req.pt, req.clientId) = {}
             THEN Answer(q, req, [ status |-> 404, kind |-> "update-client" ])
           ELSE IF Given(req.name) \/ Given(req.email)
             THEN Go(q, [ req EXCEPT !.pc = "update_profile" ])
           ELSE Answer(q, req, [ status |-> 200, kind |-> "update-client", success |-> TRUE ])
        /\ UNCHANGED failures
     \/ /\ CanFail
        /\ failures' = failures + 1
        /\ Answer(q, req, [ status |-> 404, kind |-> "update-client" ])
  /\ UNCHANGED << logTables, outsideLog >>

\* the profiles row after .update(updates): full_name and email as given
UpdatedProfile(row, req) ==
  [ full_name |-> IF Given(req.name) THEN req.name[1] ELSE row.full_name,
    email |-> IF Given(req.email) THEN req.email[1] ELSE row.email ]

\* update-client, profiles.update(updates).eq("id", clientId): refused when
\* another profile holds the email
UpdateProfile(q) ==
  LET req == request[q]
      hit == { a \in accounts : a.id = req.clientId /\ a.profile # Null } IN
  /\ req.kind = "update-client"
  /\ req.pc = "update_profile"
  /\ \/ /\ IF hit = {} \/ ~Given(req.email) \/ ProfileEmailFree(req.email[1], req.clientId)
             THEN /\ accounts' = { IF a \in hit
                                     THEN [ a EXCEPT !.profile = Some(UpdatedProfile(@[1], req)) ]
                                   ELSE a : a \in accounts }
                  /\ Go(q, [ req EXCEPT !.pc = "update_auth" ])
           ELSE /\ Answer(q, req, [ status |-> 400, kind |-> "update-client" ])
                /\ UNCHANGED accounts
        /\ UNCHANGED failures
     \/ /\ CanFail
        /\ failures' = failures + 1
        /\ Answer(q, req, [ status |-> 400, kind |-> "update-client" ])
        /\ UNCHANGED accounts
  /\ UNCHANGED << session_logs, session_log_sets, notifications, outsideLog >>

\* update-client, supabase.auth.admin.updateUserById: an error (the email is
\* another account's, or the call fails) is logged only; then the answer
UpdateAuth(q) ==
  LET req == request[q] IN
  /\ req.kind = "update-client"
  /\ req.pc = "update_auth"
  /\ \/ /\ IF Given(req.email) /\ AuthEmailFree(req.email[1], req.clientId)
             THEN accounts' = WithAccount(req.clientId, "email", req.email[1])
           ELSE UNCHANGED accounts
        /\ UNCHANGED failures
     \/ /\ CanFail
        /\ failures' = failures + 1
        /\ UNCHANGED accounts
  /\ Answer(q, req, [ status |-> 200, kind |-> "update-client", success |-> TRUE ])
  /\ UNCHANGED << session_logs, session_log_sets, notifications, outsideLog >>

LogInit ==
  /\ RoutineInit
  /\ failures = 0
  /\ clock = LogNow
  /\ StatsIdle
  /\ FormatIdle
  /\ DashIdle
  /\ LogIdle
  /\ FlightIdle

LogNext ==
  \/ /\ WorkoutsServed
     /\ \E q \in ReqSlots, in \in LogWorkoutInputs :
          StartLogWorkout(q, in[1], in[2], in[3], in[4])
  \/ \E q \in ReqSlots : LogFetchRoutine(q)
  \/ \E q \in ReqSlots : LogInsertSession(q)
  \/ \E q \in ReqSlots : LogInsertSets(q)
  \/ \E q \in ReqSlots : LogReadSessions(q)
  \/ \E q \in ReqSlots : LogReadRoutines(q)
  \/ \E q \in ReqSlots : LogNotify(q)
  \/ /\ AccountsServed
     /\ \E q \in ReqSlots, in \in SignupInputs : StartSignup(q, in[1], in[2], in[3])
  \/ \E q \in ReqSlots : SignupCreateUser(q)
  \/ \E q \in ReqSlots : SignupInsertProfile(q)
  \/ /\ AccountsServed
     /\ \E q \in ReqSlots, in \in CreateClientInputs :
          StartCreateClient(q, in[1], in[2], in[3])
  \/ \E q \in ReqSlots : CreateAuthUser(q)
  \/ \E q \in ReqSlots : CreateProfile(q)
  \/ \E q \in ReqSlots : CreateAssignment(q)
  \/ \E q \in ReqSlots : CreateNotify(q)
  \/ /\ AccountsServed
     /\ \E q \in ReqSlots, in \in UpdateClientInputs :
          StartUpdateClient(q, in[1], in[2], in[3], in[4])
  \/ \E q \in ReqSlots : UpdateFindAssignment(q)
  \/ \E q \in ReqSlots : UpdateProfile(q)
  \/ \E q \in ReqSlots : UpdateAuth(q)
  \/ /\ AccountsServed
     /\ \E q \in ReqSlots : StartDashboard(q, "p1")
  \/ \E q \in ReqSlots : DashReadAssignments(q)
  \/ \E q \in ReqSlots : DashReadProfiles(q)
  \/ \E q \in ReqSlots : DashReadClients(q)
  \/ \E q \in ReqSlots : DashReadHealthLogs(q)
  \/ \E q \in ReqSlots : DashReadEvents(q)
  \/ /\ WorkoutsServed
     /\ \E in \in LogRoutineInputs : StartUpsert(1, in[1], in[2], in[3], in[4])
  \/ RoutineInsert(1)
  \/ RoutineUpdate(1)
  \/ DeleteExercises(1)
  \/ FetchDetail(1)

LogSpec == LogInit /\ [][LogNext]_vars


\* ========================================================== routine read
\* fetchClientRoutines as the client dashboard, the session lookup and
\* log-workout use it: the nested select of routines, their exercise rows and
\* set rows, turned into the client-facing view with formatSets.

\* routine_exercises.prescribed_sets: smallint NOT NULL DEFAULT 3; upsertRoutine
\* inserts the row without the column
PrescribedSetsDefault == 3

\* the routine_exercises row with its nested set rows, as the select returns
\* it for a row upsertRoutine wrote: the prescribed_* columns hold the
\* defaults of the table (the insert names routine_id, exercise_id, position
\* and notes only), the set rows the targets stored.  The nested set rows
\* have distinct set numbers and formatSets sorts them by set number, so the
\* order in which the select returns them does not show.
StoredExerciseRow(row) ==
  LET sets == SeqOfSet({ t \in routine_exercise_sets : t.routine_exercise_id = row.id }) IN
  [ prescribed_sets |-> Some(PrescribedSetsDefault),
    prescribed_reps_min |-> Null,
    prescribed_reps_max |-> Null,
    prescribed_rest_seconds |-> Null,
    prescribed_weight |-> Null,
    routine_exercise_sets |->
      [ i \in 1..Len(sets) |->
          SetRow(sets[i].set_number, sets[i].target_reps, sets[i].target_rep_range,
                 sets[i].target_weight, sets[i].target_rest_seconds) ] ]

\* exercise.exercise?.default_rest_seconds ?? null
CatalogRestOf(exerciseId) ==
  IF \E c \in exercises_catalog : c.id = exerciseId
    THEN (CHOOSE c \in exercises_catalog : c.id = exerciseId).default_rest_seconds
  ELSE Null

\* one routine of the view, its nested rows returned as `rows`: its exercises
\* by position, each with its sets
RoutineViewOf(routine, rows) ==
  LET sorted == SortByPosition(rows) IN
  [ id |-> routine.id, ptId |-> routine.pt_id, clientId |-> routine.client_id,
    exercises |-> [ i \in 1..Len(sorted) |->
                      [ id |-> sorted[i].id, exerciseId |-> sorted[i].exercise_id,
                        name |-> CatalogNameOf(sorted[i].exercise_id),
                        defaultRestSeconds |-> CatalogRestOf(sorted[i].exercise_id),
                        sets |-> formatSets(StoredExerciseRow(sorted[i]),
                                            CatalogRestOf(sorted[i].exercise_id)) ] ] ]

\* the views a read may give of one routine
RoutineViews(routine) ==
  { RoutineViewOf(routine, rows) : rows \in NestedExerciseRows(routine) }

\* fetchClientRoutines(clientId): what the read may return, each result the
\* views of the client's routines, one of every routine
fetchClientRoutines(clientId) ==
  LET found == ClientRoutines(clientId)
      views == UNION { RoutineViews(r) : r \in found } IN
  { { pick[r] : r \in found } :
      pick \in { f \in [found -> views] : \A r \in found : f[r] \in RoutineViews(r) } }


\* ========================================================= stored history
\* The requests of Spec, DashSpec and LogSpec in one specification: a
\* behaviour is any sequence of routine, health-log, calendar, dashboard,
\* log-workout, signup, create-client and update-client requests, in any
\* order.  These are all the routes that write a table other than
\* notifications (the mark-read routes) or an auth password
\* (reset-client-password); the other routes are reads.  One routine request
\* and MaxHistoryRequests other requests are in flight at a time, their store
\* calls interleaved.  The request bodies are few, and the rows stored by a
\* behaviour are at most MaxHistoryRows.

MaxHistoryRows == 2
MaxHistoryRequests == 1

HistorySlots == 1..MaxHistoryRequests

\* the exercise list of the routine requests: "aa" by its catalog id with one
\* set, and "a_", which the name lookup does not resolve
HistoryExercises ==
  << Exercise(<<"a", "a">>, 1, << SetInput(Num(8), Absent, Null) >>, Null),
     Exercise(<<"a", "_">>, NoId, << >>, Null) >>

\* POST /pt/routine and PUT /pt/routine/1 by p1, PUT /pt/routine/1 by p2
HistoryRoutineInputs ==
  { << "p1", NoId, "c1" >>, << "p1", 1, "c1" >>, << "p2", 1, "c2" >> }

HistoryHealthLogInputs ==
  { << "p1", "c1", "knee", "ACUTE" >>, << "p1", "c1", "knee", "RESOLVED" >> }

HistoryEventInputs == { << "p1", "c1", "session", LogNow >> }

\* a workout of routine 1 by its client c1, and one by c2, whose routine it
\* is not
HistoryLogWorkoutInputs ==
  { << "c1", 1, << LoggedExercise(1, NoId, Null, 1) >>, Null >>,
    << "c2", 1, << >>, Null >> }

HistoryCreateClientInputs == { << "p1", << "N" >>, << "N", "@", "x" >> >> }

HistorySignupInputs == { << << "n", "@", "x" >>, << "n" >>, "client" >> }

HistoryUpdateClientInputs == { << "p1", "c1", Some(<< "k" >>), Null >> }

\* the rows the requests have stored, and those the requests in flight may
\* yet store
HistoryRows ==
  Cardinality(session_logs) + Cardinality(WorkoutsInFlight)
    + Cardinality(client_health_logs) + Cardinality(HealthLogsInFlight)
    + Cardinality(pt_calendar_events)
    + Cardinality(CreatedAccounts) + Cardinality(AccountsInFlight)

\* a request that stores a row may begin
MayStoreRow == HistoryRows < MaxHistoryRows

HistoryInit ==
  /\ RoutineInit
  /\ failures = 0
  /\ clock = LogNow
  /\ StatsIdle
  /\ FormatIdle
  /\ DashIdle
  /\ LogIdle
  /\ FlightIdle

HistoryNext ==
  \/ \E in \in HistoryRoutineInputs : StartUpsert(1, in[1], in[2], in[3], HistoryExercises)
  \/ RoutineInsert(1)
  \/ RoutineUpdate(1)
  \/ DeleteExercises(1)
  \/ ResolveById(1)
  \/ ResolveLookup(1)
  \/ ResolveInsert(1)
  \/ InsertExercise(1)
  \/ InsertSets(1)
  \/ FetchDetail(1)
  \/ /\ MayStoreRow
     /\ \E q \in HistorySlots, in \in HistoryHealthLogInputs :
          StartHealthLog(q, in[1], in[2], in[3], in[4])
  \/ \E q \in HistorySlots : HealthLogFindAssignment(q)
  \/ \E q \in HistorySlots : HealthLogInsert(q)
  \/ /\ MayStoreRow
     /\ \E in \in HistoryEventInputs : PostCalendarEvent(in[1], in[2], in[3], in[4])
  \/ \E q \in HistorySlots : StartDashboard(q, "p1")
  \/ \E q \in HistorySlots : DashReadAssignments(q)
  \/ \E q \in HistorySlots : DashReadProfiles(q)
  \/ \E q \in HistorySlots : DashReadClients(q)
  \/ \E q \in HistorySlots : DashReadHealthLogs(q)
  \/ \E q \in HistorySlots : DashReadEvents(q)
  \/ /\ MayStoreRow
     /\ \E q \in HistorySlots, in \in HistoryLogWorkoutInputs :
          StartLogWorkout(q, in[1], in[2], in[3], in[4])
  \/ \E q \in HistorySlots : LogFetchRoutine(q)
  \/ \E q \in HistorySlots : LogInsertSession(q)
  \/ \E q \in HistorySlots : LogInsertSets(q)
  \/ \E q \in HistorySlots : LogReadSessions(q)
  \/ \E q \in HistorySlots : LogReadRoutines(q)
  \/ \E q \in HistorySlots : LogNotify(q)
  \/ /\ MayStoreRow
     /\ \E q \in HistorySlots, in \in HistorySignupInputs : StartSignup(q, in[1], in[2], in[3])
  \/ \E q \in HistorySlots : SignupCreateUser(q)
  \/ \E q \in HistorySlots : SignupInsertProfile(q)
  \/ /\ MayStoreRow
     /\ \E q \in HistorySlots, in \in HistoryCreateClientInputs :
          StartCreateClient(q, in[1], in[2], in[3])
  \/ \E q \in HistorySlots : CreateAuthUser(q)
  \/ \E q \in HistorySlots : CreateProfile(q)
  \/ \E q \in HistorySlots : CreateAssignment(q)
  \/ \E q \in HistorySlots : CreateNotify(q)
  \/ \E q \in HistorySlots, in \in HistoryUpdateClientInputs :
        StartUpdateClient(q, in[1], in[2], in[3], in[4])
  \/ \E q \in HistorySlots : UpdateFindAssignment(q)
  \/ \E q \in HistorySlots : UpdateProfile(q)
  \/ \E q \in HistorySlots : UpdateAuth(q)

HistorySpec == HistoryInit /\ [][HistoryNext]_vars


\* -------------------------------------------------------------- properties
\* the catalog rows of pt whose name equals name case-insensitively
SameName(pt, name) ==
  { r \in exercises_catalog : r.pt_id = pt /\ LowerStr(r.name) = LowerStr(name) }

\* C1: In every reachable state no two exercises_catalog rows have the same
\* pt_id and names that are equal when compared case-insensitively.
C1_CatalogNamesUnique ==
  \A r1, r2 \in exercises_catalog :
    (r1.pt_id = r2.pt_id /\ LowerStr(r1.name) = LowerStr(r2.name)) => r1 = r2

\* C1 witness: with no store failure injected, a resolution's insert was
\* refused by the unique index while an entry inserted by a call of this run
\* holds the name in another letter case.
C1_Witness ==
  /\ failures = 0
  /\ \E s \in Slots :
       /\ calls[s].pc = "error"
       /\ calls[s].err = CatalogCreateFailed
       /\ \E r \in SameName(calls[s].ptId, calls[s].trimmedName) :
            r \notin SeedCatalog /\ r.name # calls[s].trimmedName


\* C2: When two resolutions of one not-yet-existing name (same PT, equal
\* case-insensitively) both miss the name lookup, the one whose insert loses
\* to the unique index retries as a lookup and returns the winning entry's id;
\* neither call surfaces an error.  Stated of every call that has ended after
\* a lookup that matched no row, no store failure having been injected.
C2_LosingInsertRetried ==
  \A s \in Slots :
    (failures = 0 /\ calls[s].lookupRows = 0 /\ Ended(calls[s]))
      => /\ calls[s].pc # "error"
         /\ calls[s].kind = "resolve" =>
              \E r \in SameName(calls[s].ptId, calls[s].trimmedName) :
                r.id = calls[s].result

\* a PUT whose routine update matched no row: the routine is absent or
\* another PT's
UnownedUpdate(c) ==
  /\ c.kind = "upsert"
  /\ c.paramRoutineId # NoId
  /\ c.pc \notin {"idle", "routine_write"}
  /\ ~c.matched

\* C3: If upsertRoutine is called with a routineId that does not exist or is
\* not owned by the calling PT, the call surfaces an error and performs no
\* write.
C3_UnownedUpdateRejected ==
  \A s \in Slots :
    UnownedUpdate(calls[s])
      => /\ calls[s].wrote = {}
         /\ Ended(calls[s]) => calls[s].status = 500

\* a POST whose clientId is absent or not assigned to the calling PT
UnassignedCreate(c) ==
  /\ c.kind = "upsert"
  /\ c.paramRoutineId = NoId
  /\ c.pc # "idle"
  /\ << c.ptId, c.clientId >> \notin Assigned

\* C9: If a PT calls POST /pt/routine with a clientId that is absent or not
\* assigned to that PT, the call surfaces an error and writes nothing.
C9_UnassignedCreateRejected ==
  \A s \in Slots :
    UnassignedCreate(calls[s])
      => /\ calls[s].wrote = {}
         /\ Ended(calls[s]) => calls[s].status = 500

CaseVariants(n1, n2) == n1 # n2 /\ LowerStr(n1) = LowerStr(n2)

\* C10: Two sequential resolveExerciseCatalogId calls for the same PT with
\* names that differ only in letter case return the same catalog id both
\* times, and the catalog contains exactly one row for that name afterwards.
C10_CaseVariedResolveIdempotent ==
  \A s1, s2 \in Slots :
    ( /\ s1 < s2
      /\ failures = 0
      /\ calls[s1].kind = "resolve" /\ calls[s2].kind = "resolve"
      /\ calls[s1].ptId = calls[s2].ptId
      /\ calls[s2].sequential
      /\ Ended(calls[s1]) /\ Ended(calls[s2])
      /\ CaseVariants(calls[s1].exercises[1].name, calls[s2].exercises[1].name) )
    => /\ calls[s1].pc = "done" /\ calls[s2].pc = "done"
       /\ calls[s1].result = calls[s2].result
       /\ Cardinality(SameName(calls[s1].ptId, calls[s1].trimmedName)) = 1


\* the rows rows hold positions exactly 0..n-1, n their number
PositionsContiguous(rows) ==
  \A i \in 0..(Cardinality(rows) - 1) :
    Cardinality({ r \in rows : r.position = i }) = 1

\* catalog entry id of catalog cat is one the resolver can return to pt for ex
ResolvesTo(cat, pt, ex, id) ==
  \E r \in cat :
    /\ r.id = id
    /\ r.pt_id = pt
    /\ ex.catalogId = id \/ ILike(Trim(ex.name), r.name)

\* in the tables (res, sets, cat) the exercise rows of routine rid are exactly
\* the list exs of pt in submission order, each with its submitted sets
RowsAreList(res, sets, cat, rid, pt, exs) ==
  LET rows == { r \in res : r.routine_id = rid } IN
  /\ Cardinality(rows) = Len(exs)
  /\ \A i \in 1..Len(exs) :
       \E r \in rows :
         /\ r.position = i - 1
         /\ ResolvesTo(cat, pt, exs[i], r.exercise_id)
         /\ { t \in sets : t.routine_exercise_id = r.id }
              = SetsPayload(r.id, exs[i].sets)

\* upsertRoutine has returned its routineId
Returned(c) == c.kind = "upsert" /\ c.pc \in {"fetch", "done"}

\* C4: After two concurrent UPDATE upsertRoutine calls on the same routineId
\* have both returned, the routine's stored exercise rows equal the full
\* exercise list of exactly one of the two calls, never a mixture or union.
\* Stated of two updates by the routine's owner with different lists, no store
\* failure having been injected.
C4_LastWriteWins ==
  \A s1, s2 \in Slots :
    ( /\ s1 < s2
      /\ failures = 0
      /\ Returned(calls[s1]) /\ Returned(calls[s2])
      /\ calls[s1].paramRoutineId # NoId
      /\ calls[s1].paramRoutineId = calls[s2].paramRoutineId
      /\ calls[s1].matched /\ calls[s2].matched
      /\ calls[s1].exercises # calls[s2].exercises )
    => \/ RowsAreList(routine_exercises, routine_exercise_sets, exercises_catalog,
                      calls[s1].routineId, calls[s1].ptId, calls[s1].exercises)
       \/ RowsAreList(routine_exercises, routine_exercise_sets, exercises_catalog,
                      calls[s2].routineId, calls[s2].ptId, calls[s2].exercises)

\* the step in which upsertRoutine of call s returns
Returns(s) == calls[s].pc # "fetch" /\ calls'[s].pc = "fetch"

\* C5: After every upsertRoutine call that returns a routineId (CREATE or
\* UPDATE, nested insert failures included), the routine_exercises rows of
\* that routine carry positions exactly 0..n-1, no gap and no duplicate.
C5_PositionsContiguous ==
  [][ \A s \in Slots :
        Returns(s) =>
          PositionsContiguous(
            { r \in routine_exercises' : r.routine_id = calls'[s].result }) ]_vars

\* C6: After an UPDATE upsertRoutine call on an existing routineId returns,
\* the routine's exercise rows are exactly the exercises of that call's list
\* in submission order; no row of an earlier upsert remains.  Stated of the
\* calls none of whose own nested inserts failed.
C6_UpdateReplacesRows ==
  [][ \A s \in Slots :
        ( /\ Returns(s)
          /\ calls[s].paramRoutineId # NoId
          /\ ExerciseInsertOk(calls[s].paramRoutineId)
          /\ calls'[s].skipped = 0 )
        => RowsAreList(routine_exercises', routine_exercise_sets', exercises_catalog',
                       calls[s].routineId, calls[s].ptId, calls[s].exercises) ]_vars

\* The history field wrote is exact: a step changes the rows of a table only
\* as the step of a call that records the table in wrote.
WroteRecordsEveryChange ==
  [][ /\ exercises_catalog' # exercises_catalog =>
           \E s \in Slots : calls'[s] # calls[s] /\ "exercises_catalog" \in calls'[s].wrote
      /\ routines' # routines =>
           \E s \in Slots : calls'[s] # calls[s] /\ "routines" \in calls'[s].wrote
      /\ routine_exercises' # routine_exercises =>
           \E s \in Slots : calls'[s] # calls[s] /\ "routine_exercises" \in calls'[s].wrote
      /\ routine_exercise_sets' # routine_exercise_sets =>
           \E s \in Slots :
             /\ calls'[s] # calls[s]
             /\ calls'[s].wrote \cap {"routine_exercises", "routine_exercise_sets"} # {}
    ]_vars

\* C7: The routine row write is all-or-nothing: if the routines insert or
\* update fails, the call raises an error and has deleted or inserted no
\* routine_exercises or routine_exercise_sets row and created no catalog entry.
C7_RoutineWriteAllOrNothing ==
  \A s \in Slots :
    calls[s].err \in {RoutineCreateFailed, RoutineUpdateFailed}
      => /\ calls[s].pc = "error"
         /\ calls[s].status = 500
         /\ calls[s].result = NoId
         /\ calls[s].wrote = {}

\* C7 witness: an UPDATE of a routine that has exercise rows failed at the
\* routine row, and the rows are still there.
C7_Witness ==
  \E s \in Slots :
    /\ calls[s].err = RoutineUpdateFailed
    /\ DeleteMatches(calls[s].routineId) # {}

\* C8: Once the routine row write has succeeded, a failure to persist one
\* nested child (an exercise row, or an exercise's set batch) is skipped
\* without aborting the save: the loop goes on to every remaining exercise
\* and upsertRoutine returns the routineId; an upsert that has skipped a child
\* ends in an error only if the catalog resolution of a later exercise throws.
C8_NestedFailureSkipped ==
  \A s \in Slots :
    LET c == calls[s] IN
    (c.kind = "upsert" /\ c.skipped > 0)
      => /\ c.pc = "error" => c.err = CatalogCreateFailed
         /\ Returned(c) =>
              /\ c.idx = Len(c.exercises) + 1
              /\ c.result = c.routineId
              /\ c.result # NoId

\* C8 witness: an upsert whose first exercise row failed to insert (with the
\* routine present) has returned its routineId after inserting the second.
C8_Witness ==
  \E s \in Slots :
    /\ Returned(calls[s])
    /\ calls[s].skipped = 1
    /\ failures = 1
    /\ Len(calls[s].exercises) = 2
    /\ \E r \in routine_exercises :
         /\ r.id = calls[s].routineExerciseId
         /\ r.routine_id = calls[s].result
         /\ r.position = 0
         /\ ResolvesTo(exercises_catalog, calls[s].ptId, calls[s].exercises[2],
                       r.exercise_id)

\* the set numbers stored for one routine exercise
SetNumbersOf(sets, routineExerciseId) ==
  { t.set_number : t \in { u \in sets : u.routine_exercise_id = routineExerciseId } }

\* C11: In every reachable state the routine_exercise_sets rows of any one
\* routine exercise have set numbers that are exactly 1..k (k >= 0), no gap
\* and no duplicate; and the step that writes an exercise's set batch leaves
\* either all of the submitted sets, numbered by 1-based submission index, or
\* none of them.
C11_SetNumbersContiguous ==
  /\ [](\A t \in routine_exercise_sets :
         LET nums == SetNumbersOf(routine_exercise_sets, t.routine_exercise_id)
             rows == { u \in routine_exercise_sets :
                         u.routine_exercise_id = t.routine_exercise_id } IN
         /\ nums = 1..Cardinality(nums)
         /\ Cardinality(rows) = Cardinality(nums))
  /\ [][\A s \in Slots :
          (calls[s].pc = "sets_insert" /\ calls'[s] # calls[s])
            => LET k == Len(calls[s].exercises[calls[s].idx].sets)
                   nums == SetNumbersOf(routine_exercise_sets',
                                        calls[s].routineExerciseId) IN
               nums = {} \/ nums = 1..k
      ]_vars

\* C11 witness: a call has written the two-set batch of a submitted exercise,
\* and it is stored as set numbers 1 and 2 of the row the call inserted.
C11_Witness ==
  \E s \in Slots :
    /\ calls[s].kind = "upsert"
    /\ "routine_exercise_sets" \in calls[s].wrote
    /\ calls[s].routineExerciseId \notin { r.id : r \in SeedExercises }
    /\ SetNumbersOf(routine_exercise_sets, calls[s].routineExerciseId) = {1, 2}

\* a step in which GET /pt/dashboard answers 200 (the store is left as it
\* is): after it, `answered` holds what the request read
DashboardAnswers ==
  /\ \E q \in ReqSlots : request[q].kind = "dashboard" /\ request'[q].pc = "idle"
  /\ response'.status = 200

\* the health logs a dashboard request read
LogsRead(req) == { req.healthLogs[i] : i \in 1..Len(req.healthLogs) }

\* the ACUTE/LINGERING health logs of a client among those a request read
ActiveLogsOf(req, clientId) ==
  { log \in LogsRead(req) : log.client_id = clientId /\ IsActiveStatus(log.status) }

\* the event starts in [from, until + 15 minutes], both ends included
InAlertWindow(e, from, until) == e.start_at >= from /\ e.start_at <= until + AlertWindow

\* in the step that answers a dashboard: every stored event of the PT of type
\* session, with an actively assigned client and a start in the window, has
\* one alert exactly when the health logs the request read hold an
\* ACUTE/LINGERING log of the client, with the title and status of the most
\* recently logged one; an event outside the window, of another type or
\* without client has none
AlertsOfWindow(from, until) ==
  \A e \in { u \in pt_calendar_events : u.pt_id = response'.pt } :
    LET forEvent == { a \in response'.alerts : a.eventId = e.id }
        active == ActiveLogsOf(answered', e.client_id) IN
    /\ ( /\ e.event_type = "session"
         /\ e.client_id # None
         /\ e.client_id \in ActiveClientIds(response'.pt)
         /\ InAlertWindow(e, from, until) )
         => /\ Cardinality(forEvent) = (IF active = {} THEN 0 ELSE 1)
            /\ \A a \in forEvent :
                 \E log \in active :
                   /\ \A other \in active : log.logged_at >= other.logged_at
                   /\ a.injuryTitle = log.injury_title
                   /\ a.status = log.status
    /\ ( \/ ~InAlertWindow(e, from, until)
         \/ e.event_type # "session"
         \/ e.client_id = None )
         => forEvent = {}

\* C12: For a PT's calendar event of type "session" linked to an actively
\* assigned client C whose start time lies in [now, now + 15 minutes] (both
\* ends included), the PT dashboard emits exactly one alert for that event if
\* and only if C has at least one ACUTE or LINGERING health log, and the
\* alert's issue title and status are those of C's most recently logged
\* ACUTE/LINGERING log; events outside the window, of another type, or
\* without a linked client yield no alert.  The events are those stored when
\* the dashboard answers, the health logs those the request read, and now is
\* some instant from the request's first reading of the clock to its second.
C12_AlertPerUpcomingSession ==
  [][DashboardAnswers =>
       \E now \in (answered'.now)..(answered'.nowAgain) : AlertsOfWindow(now, now)
    ]_vars

\* the alerts are those of the window the handler asks the store for, from
\* its first reading of the clock to 15 minutes after its second
DashAlertsBetweenReadings ==
  [][DashboardAnswers => AlertsOfWindow(answered'.now, answered'.nowAgain)]_vars

\* C12 witness: c1 has an ACUTE log and a later LINGERING one, p1 has a
\* session with c1 starting exactly 15 minutes from now, and p1's dashboard
\* holds one alert, for that session, with the later log's title and status.
C12_Witness ==
  /\ response.kind = "dashboard"
  /\ response.status = 200
  /\ response.pt = "p1"
  /\ \E e \in pt_calendar_events, old, new \in LogsRead(answered) :
       /\ e.pt_id = "p1" /\ e.client_id = "c1" /\ e.event_type = "session"
       /\ e.start_at = answered.now + AlertWindow
       /\ old.client_id = "c1" /\ old.status = "ACUTE"
       /\ new.client_id = "c1" /\ new.status = "LINGERING"
       /\ new.injury_title # old.injury_title
       /\ new.logged_at > old.logged_at
       /\ response.alerts = { Alert(e, new) }

\* C12, a health log stored while the dashboard was being put together: the
\* request had read the health logs (one ACUTE log of c1) before a LINGERING
\* log of c1 was stored, and its alert carries the log it read
C12_WitnessLogStoredMeanwhile ==
  /\ response.kind = "dashboard"
  /\ response.status = 200
  /\ \E late \in client_health_logs \ LogsRead(answered) :
       /\ late.client_id = "c1"
       /\ late.status = "LINGERING"
  /\ \E a \in response.alerts : a.clientId = "c1" /\ a.status = "ACUTE"

\* the client's most recently logged health entry, of those a dashboard
\* request read, is a RESOLVED one
LastLogResolved(req, clientId) ==
  \E log \in LogsRead(req) :
    /\ log.client_id = clientId
    /\ log.status = "RESOLVED"
    /\ \A other \in LogsRead(req) :
         (other.client_id = clientId /\ other # log) => other.logged_at < log.logged_at

\* C13: A RESOLVED health log closes the issue: after a RESOLVED log is
\* appended for a client and is that client's most recently logged entry, the
\* PT dashboard reports no active health issue for that client and emits no
\* alert for that client's upcoming sessions, while all earlier health log
\* rows remain stored.
C13_ResolvedClosesIssue ==
  /\ [][DashboardAnswers =>
          \A cid \in ActiveClientIds(response'.pt) :
            LastLogResolved(answered', cid)
              => /\ response'.clients[cid].activeHealthIssue = Null
                 /\ \A a \in response'.alerts : a.clientId # cid
       ]_vars
  /\ [][client_health_logs \subseteq client_health_logs']_vars

\* the distinct UTC calendar dates of the sessions passed in, and today's
SessionDates == { UtcDate(sessionLogs[i]) : i \in 1..Len(sessionLogs) }
Today == UtcDate(clock)

\* the days d, d-1, ..., d-k+1 all hold a session
RunEndingAt(d, k) == \A j \in 0..(k - 1) : (d - j) \in SessionDates

\* C14: computeStreakStats returns currentStreak = 0 whenever the most recent
\* distinct UTC session date is not today, and otherwise the number of
\* consecutive calendar days, counted backward from today, that each contain at
\* least one session, stopping at the first missing day.
C14_CurrentStreak ==
  streak # Null =>
    LET latestIsToday ==
          /\ Today \in SessionDates
          /\ \A d \in SessionDates : d <= Today IN
    IF ~latestIsToday THEN streak[1].currentStreak = 0
    ELSE /\ RunEndingAt(Today, streak[1].currentStreak)
         /\ (Today - streak[1].currentStreak) \notin SessionDates
         /\ streak[1].currentStreak >= 1

\* C14 witness: sessions yesterday and the day before but none today give 0,
\* asked for on a Monday noon.
C14_Witness ==
  /\ streak # Null
  /\ clock = At(11, Noon)
  /\ SessionDates = {9, 10}
  /\ streak[1].currentStreak = 0
  /\ streak[1].longestStreak = 2

\* C14, second witness case: a run that reaches today is counted back to the
\* first missing day.
C14_WitnessRun ==
  /\ streak # Null
  /\ Today = 11
  /\ SessionDates = {7, 10, 11}
  /\ streak[1].currentStreak = 2

\* C15: computeStreakStats returns as longestStreak the maximum length of a
\* run of consecutive distinct UTC calendar dates among the sessions, whatever
\* the order of the input rows.
C15_LongestStreak ==
  streak # Null =>
    /\ \A d \in SessionDates, k \in 1..(MaxSessions + 1) :
         RunEndingAt(d, k) => k <= streak[1].longestStreak
    /\ SessionDates # {} =>
         \E d \in SessionDates : RunEndingAt(d, streak[1].longestStreak)
    /\ SessionDates = {} => streak[1].longestStreak = 0

\* C15 witness: two runs, one day and two days long, either side of a gap of
\* two days, passed with the rows not in date order: the longer run wins.
C15_Witness ==
  /\ streak # Null
  /\ Len(sessionLogs) = 3
  /\ SessionDates = {7, 9, 10}
  /\ UtcDate(sessionLogs[1]) = 10
  /\ UtcDate(sessionLogs[2]) = 7
  /\ streak[1].longestStreak = 2

\* C16: Same-day sessions collapse to one day for streaks while totalWorkouts
\* counts raw rows: for any non-empty session list whose UTC dates all equal
\* today, currentStreak = longestStreak = 1 and totalWorkouts = the number of
\* session rows.
C16_SameDaySessions ==
  (streak # Null /\ Len(sessionLogs) > 0 /\ SessionDates = {Today}) =>
    /\ streak[1].currentStreak = 1
    /\ streak[1].longestStreak = 1
    /\ streak[1].totalWorkouts = Len(sessionLogs)

\* C16 witness: three sessions today, two of them at the same instant.
C16_Witness ==
  /\ streak # Null
  /\ Len(sessionLogs) = 3
  /\ SessionDates = {Today}
  /\ sessionLogs[1] = sessionLogs[3]
  /\ sessionLogs[1] # sessionLogs[2]
  /\ streak[1].totalWorkouts = 3

\* Monday 5 January 1970, 00:00:00 UTC, is day 4; Mondays come every 7 days
IsMondayMidnight(ms) ==
  /\ ms % MsPerDay = 0
  /\ \E week \in 0..3 : ms \div MsPerDay = 4 + 7 * week

\* C17: For every value of now (any weekday, Sunday included),
\* computeWeeklyGoal's weekStart is Monday 00:00:00 UTC of the week containing
\* now, and completed counts exactly the sessions with weekStart <=
\* performed_at < weekStart + 7 days; hence a session at Sunday 23:59:59 UTC
\* and one at the following Monday 00:00:00 UTC are never counted in the same
\* week.
C17_WeekBoundaries ==
  weeklyGoal # Null =>
    LET ws == weeklyGoal[1].weekStart
        counted == { i \in 1..Len(sessionLogs) :
                       sessionLogs[i] >= ws /\ sessionLogs[i] < ws + 7 * MsPerDay } IN
    /\ IsMondayMidnight(ws)
    /\ ws <= clock
    /\ clock < ws + 7 * MsPerDay
    /\ weeklyGoal[1].completed = Cardinality(counted)
    /\ \A i, j \in 1..Len(sessionLogs) :
         (sessionLogs[i] = At(10, LastSecond) /\ sessionLogs[j] = At(11, 0))
           => ~(i \in counted /\ j \in counted)

\* C17 witness: asked on a Sunday, with a session at that Sunday's 23:59:59
\* and one at the next Monday's 00:00:00: only the Sunday one is counted.
C17_Witness ==
  /\ weeklyGoal # Null
  /\ UtcDate(clock) = 10
  /\ sessionLogs = << At(10, LastSecond), At(11, 0) >>
  /\ weeklyGoal[1].weekStart = At(4, 0)
  /\ weeklyGoal[1].completed = 1

\* C18: computeWeeklyGoal returns goal equal to the profile's
\* training-frequency goal when that goal is greater than 0, and otherwise
\* (goal null or 0) equal to the client's number of active routines,
\* independently of the session list.
C18_GoalFallback ==
  weeklyGoal # Null =>
    weeklyGoal[1].goal =
      (IF profile.training_frequency_goal \in { Null, Some(0) }
         THEN routineCount ELSE profile.training_frequency_goal[1])

\* C18 witness: goal null, no sessions, four routines give goal 4.
C18_Witness ==
  /\ weeklyGoal # Null
  /\ profile.training_frequency_goal = Null
  /\ sessionLogs = << >>
  /\ routineCount = 4
  /\ weeklyGoal[1].goal = 4

\* C19: For an exercise with no explicit set rows, the routine view contains
\* exactly prescribedSets sets (0 when prescribedSets is absent), numbered
\* 1..prescribedSets, each carrying the same exercise-level fallback reps, rest
\* and weight; repsMin = 8, repsMax = 12, prescribedSets = 3 yields exactly 3
\* sets each with reps "8-12".
C19_SynthesizedSets ==
  (formatted # Null /\ exerciseRow[1].routine_exercise_sets = << >>) =>
    LET e == exerciseRow[1]
        view == formatted[1]
        rest == Coalesce(e.prescribed_rest_seconds, defaultRestSeconds) IN
    /\ Len(view) = (IF e.prescribed_sets = Null THEN 0 ELSE e.prescribed_sets[1])
    /\ \A i \in 1..Len(view) :
         /\ view[i].setNumber = i
         /\ view[i].reps = formatRepsFallback(e.prescribed_reps_min, e.prescribed_reps_max)
         /\ view[i].rest = (IF rest = Null THEN << >> ELSE NumberToString(rest[1]))
         /\ view[i].targetWeight = e.prescribed_weight
    /\ (e.prescribed_reps_min = Some(8) /\ e.prescribed_reps_max = Some(12))
         => \A i \in 1..Len(view) : view[i].reps = << "8", "-", "1", "2" >>

\* C19 witness: repsMin 8, repsMax 12, three prescribed sets, no explicit
\* rows: three sets numbered 1..3, each "8-12".
C19_Witness ==
  /\ formatted # Null
  /\ exerciseRow[1].routine_exercise_sets = << >>
  /\ exerciseRow[1].prescribed_sets = Some(3)
  /\ exerciseRow[1].prescribed_reps_min = Some(8)
  /\ exerciseRow[1].prescribed_reps_max = Some(12)
  /\ Len(formatted[1]) = 3
  /\ \A i \in 1..3 : formatted[1][i].setNumber = i
                     /\ formatted[1][i].reps = << "8", "-", "1", "2" >>

\* the request answered last has come back from createNotification
Notified == /\ answered.kind \in {"log-workout", "create-client"}
            /\ answered.notified # "no"

\* C20: A failure to record a notification is logged and never propagated:
\* when the notification insert fails during log-workout (or create-client),
\* the request returns the same success response, and leaves the same
\* session/client rows stored, as when the notification is recorded.  Whatever
\* the outcome of the insert, the answer is the 200 response built from what
\* the request did before it, and the row it wrote is stored.
C20_NotificationFailureSwallowed ==
  Notified =>
    IF answered.kind = "log-workout"
      THEN /\ response = [ status |-> 200, kind |-> "log-workout", success |-> TRUE,
                           streak |-> answered.streak[1],
                           weeklyGoal |-> answered.weeklyGoal[1] ]
           /\ \E row \in session_logs :
                /\ row.id = answered.sessionLogId
                /\ row.client_id = answered.client
                /\ row.routine_id = answered.routineId
                /\ row.performed_at = answered.performedAt
    ELSE /\ response = [ status |-> 200, kind |-> "create-client",
                         client |-> [ id |-> answered.userId, name |-> answered.name,
                                      email |-> answered.email ] ]
         /\ \E a \in accounts : a.id = answered.userId /\ a.profile # Null

\* C20 witness: a workout was logged, the notification insert failed, no
\* notification is stored, and the client got the 200 response with a streak
\* that counts the new session.
C20_Witness ==
  /\ answered.kind = "log-workout"
  /\ answered.notified = "failed"
  /\ notifications = {}
  /\ failures = 0
  /\ response.status = 200
  /\ response.streak.totalWorkouts = 1
  /\ Cardinality(session_logs) = 1

\* C20, create-client case: the client was created, the notification insert
\* failed, and the PT got the 200 response.
C20_WitnessCreateClient ==
  /\ Notified
  /\ answered.kind = "create-client"
  /\ answered.notified = "failed"
  /\ notifications = {}
  /\ response.status = 200
  /\ \E a \in accounts :
       a.id = response.client.id /\ a.profile # Null /\ a.assigned_to = "p1"

\* C21: stored history is append-only.  No step of any request deletes a
\* routines row (the row of every stored id is still there after the step),
\* and no step updates or deletes a session_logs or client_health_logs row:
\* every stored row is there unchanged after the step, so the two sets only
\* grow.
C21_HistoryAppendOnly ==
  [][ /\ \A r \in routines : \E kept \in routines' : kept.id = r.id
      /\ session_logs \subseteq session_logs'
      /\ client_health_logs \subseteq client_health_logs' ]_vars

\* requests of different routes have followed one another: a session log and
\* a health log are stored, an UPDATE upsertRoutine has deleted the exercise
\* rows of routine 1, and the routines row is still stored
C21_Witness ==
  /\ session_logs # {}
  /\ client_health_logs # {}
  /\ \E s \in Slots :
       /\ calls[s].kind = "upsert"
       /\ calls[s].paramRoutineId = 1
       /\ "routine_exercises" \in calls[s].wrote
       /\ \A r \in routine_exercises : r.routine_id # 1
       /\ \E r \in routines : r.id = 1

\* a second log-workout has ended without a row of its own (404 or 500) after
\* a first one stored its session: the first row is still there
C21_WitnessSessionLog ==
  /\ answered.kind = "log-workout"
  /\ answered.sessionLogId = NoId
  /\ session_logs # {}

\* a RESOLVED health log has been stored after an ACUTE one of the same
\* client, which is still there
C21_WitnessHealthLog ==
  \E a, b \in client_health_logs :
    /\ a.client_id = b.client_id
    /\ a.id < b.id
    /\ a.status = "ACUTE"
    /\ b.status = "RESOLVED"

\* the decimal text of the rep counts offered, written out
RepsText == (5 :> << "5" >>) @@ (8 :> << "8" >>) @@ (12 :> << "1", "2" >>)

\* the sets of a view whose reps come from formatRepsFallback alone: those
\* synthesized for an exercise without explicit set rows
FallbackReps ==
  IF formatted # Null /\ Len(exerciseRow[1].routine_exercise_sets) = 0
    THEN { formatted[1][i].reps : i \in 1..Len(formatted[1]) }
    ELSE {}

\* C22 as claimed: formatRepsFallback returns "{min}-{max}" exactly when min
\* and max are both present and distinct, "{min}" exactly when min is present
\* and max is absent, and "10" in every other case.
C22_FallbackAsClaimed ==
  LET min == exerciseRow[1].prescribed_reps_min
      max == exerciseRow[1].prescribed_reps_max IN
  \A reps \in FallbackReps :
    reps = IF min # Null /\ max # Null /\ min # max
             THEN RepsText[min[1]] \o << "-" >> \o RepsText[max[1]]
           ELSE IF min # Null /\ max = Null THEN RepsText[min[1]]
           ELSE << "1", "0" >>

\* C22 (amended): formatRepsFallback returns "{min}-{max}" exactly when min
\* and max are both present and distinct, "{min}" exactly when min is present
\* and max is absent or equal to min, and "10" exactly when min is absent.
C22_FallbackReps ==
  LET min == exerciseRow[1].prescribed_reps_min
      max == exerciseRow[1].prescribed_reps_max IN
  \A reps \in FallbackReps :
    reps = IF min # Null /\ max # Null /\ min # max
             THEN RepsText[min[1]] \o << "-" >> \o RepsText[max[1]]
           ELSE IF min # Null THEN RepsText[min[1]]
           ELSE << "1", "0" >>

\* sets were synthesized for an exercise whose two bounds are both 8: their
\* reps read "8"
C22_Witness ==
  /\ exerciseRow # Null
  /\ exerciseRow[1].prescribed_reps_min = Some(8)
  /\ exerciseRow[1].prescribed_reps_max = Some(8)
  /\ FallbackReps = { << "8" >> }

\* the reps the routine view is to show for explicit set row `set` of
\* `exercise`: the first available of the four sources
RepsByPriority(exercise, set) ==
  LET min == exercise.prescribed_reps_min
      max == exercise.prescribed_reps_max IN
  IF set.target_rep_range # Null THEN set.target_rep_range[1]
  ELSE IF set.target_reps # Null THEN RepsText[set.target_reps[1]]
  ELSE IF min # Null /\ max # Null /\ min # max
    THEN RepsText[min[1]] \o << "-" >> \o RepsText[max[1]]
  ELSE IF min # Null THEN RepsText[min[1]]
  ELSE << "1", "0" >>

\* C23: for an exercise with explicit set rows the view has one set per row,
\* in ascending setNumber order, and the reps of each set is the first
\* available of the row's rep-range string, the row's numeric reps, the range
\* computed from the exercise's prescribed bounds, and "10".
C23_ExplicitSets ==
  (formatted # Null /\ Len(exerciseRow[1].routine_exercise_sets) > 0) =>
    LET rows == exerciseRow[1].routine_exercise_sets
        view == formatted[1] IN
    /\ Len(view) = Len(rows)
    /\ \A i, j \in 1..Len(view) : i < j => view[i].setNumber < view[j].setNumber
    /\ \A k \in 1..Len(rows) :
         \E i \in 1..Len(view) :
           /\ view[i].setNumber = rows[k].set_number
           /\ view[i].reps = RepsByPriority(exerciseRow[1], rows[k])

\* the view of two rows (they were read out of order, and the call has
\* sorted them), the second-numbered with both a rep-range string and numeric
\* reps: set 1 shows its numeric reps, set 2 its range
C23_Witness ==
  /\ formatted # Null
  /\ Len(exerciseRow[1].routine_exercise_sets) = 2
  /\ exerciseRow[1].routine_exercise_sets[2].set_number = 2
  /\ exerciseRow[1].routine_exercise_sets[2].target_reps # Null
  /\ exerciseRow[1].routine_exercise_sets[2].target_rep_range # Null
  /\ formatted[1][1].reps = << "1", "2" >>
  /\ formatted[1][2].reps = << "6", "-", "8" >>

\* the view of a row with neither a range nor numeric reps, of an exercise
\* without prescribed bounds: "10"
C23_WitnessLiteral ==
  /\ formatted # Null
  /\ Len(exerciseRow[1].routine_exercise_sets) = 2
  /\ exerciseRow[1].prescribed_reps_min = Null
  /\ exerciseRow[1].routine_exercise_sets[1].target_reps = Null
  /\ exerciseRow[1].routine_exercise_sets[1].target_rep_range = Null
  /\ formatted[1][1].reps = << "1", "0" >>

\* a log-workout request without a session row of its own
NoSessionRow(req) == req.kind = "log-workout" /\ req.sessionLogId = NoId

\* the request answered last has ended at the session_logs insert: the
\* routine was found, and no session row was stored
SessionInsertFailed ==
  /\ NoSessionRow(answered)
  /\ answered.routine # Null

\* the request of slot q after a step: in flight, or as it answered
After(q) == IF request'[q].pc = "idle" THEN answered' ELSE request'[q]

\* the step is one of the request of slot q
StepOf(q) == request'[q] # request[q]

\* C24: the session row write of log-workout is all-or-nothing.  A request
\* whose session_logs insert failed has answered with an error and has
\* written no notification; and no step of a request without a session row
\* of its own writes a session_log_sets row or a notification (or a
\* session_logs row that it does not record as its own).
C24_SessionWriteAllOrNothing ==
  /\ [](SessionInsertFailed =>
          /\ response.kind = "log-workout"
          /\ response.status = 500
          /\ answered.notified = "no")
  /\ [][ \A q \in ReqSlots :
           (StepOf(q) /\ NoSessionRow(After(q))) =>
             /\ session_logs' = session_logs
             /\ session_log_sets' = session_log_sets
             /\ notifications' = notifications ]_vars

\* the insert of a request that logs sets has failed, after an earlier request
\* stored its session, its sets and its notification
C24_Witness ==
  /\ SessionInsertFailed
  /\ answered.exercises # << >>
  /\ session_logs # {}
  /\ session_log_sets # {}
  /\ notifications # {}

\* C25: every routine_exercises row references an exercises_catalog entry
\* whose pt_id is the pt_id of the routine the row belongs to.
C25_ExerciseCatalogOfSamePT ==
  \A row \in routine_exercises :
    \A r \in routines :
      r.id = row.routine_id =>
        \E entry \in exercises_catalog :
          /\ entry.id = row.exercise_id
          /\ entry.pt_id = r.pt_id

\* C26: if an UPDATE upsertRoutine call ends by raising an error, the
\* routine's previously stored exercise and set rows are unchanged.  Stated
\* of an update of the seeded routine while no other call has written
\* anything: the rows stored before the call are the seeded ones.
C26_FailedUpdateKeepsRows ==
  \A s \in Slots :
    ( /\ calls[s].kind = "upsert"
      /\ calls[s].pc = "error"
      /\ \E r \in SeedRoutines : calls[s].paramRoutineId = r.id
      /\ \A t \in Slots \ {s} : calls[t].wrote = {} )
    => /\ { r \in routine_exercises : r.routine_id = calls[s].paramRoutineId }
            = SeedExercises
       /\ CascadeSets(SeedExercises) = SeedSets

\* the exercises of a routine read are the whole exercise list of call c, in
\* submission order
ViewIsListOf(view, c) ==
  /\ Len(view.exercises) = Len(c.exercises)
  /\ \A i \in 1..Len(c.exercises) :
       ResolvesTo(exercises_catalog, c.ptId, c.exercises[i], view.exercises[i].exerciseId)

\* C27: a routine read that runs concurrently with an UPDATE upsertRoutine on
\* the same routine returns the complete exercise list stored before the
\* update or the complete list of the update, never an empty or partial one.
\* Stated of the read that ends the PUT of call s (fetchRoutineDetail, through
\* fetchClientRoutines), which has just stored its own list, while the update
\* of call t by the same owner is in flight and no store call has failed: the
\* step of the read returns what the store holds before the step.
C27_ReadSeesCompleteList ==
  [][ \A s, t \in Slots :
        ( /\ s # t
          /\ failures' = 0
          /\ calls[s].pc = "fetch" /\ calls'[s].pc = "done" /\ calls'[s].status = 200
          /\ calls[s].paramRoutineId # NoId
          /\ calls[s].matched
          /\ calls[t].kind = "upsert"
          /\ calls[t].paramRoutineId = calls[s].paramRoutineId
          /\ calls[t].matched
          /\ ~Ended(calls[t]) )
        => \A read \in RoutineDetail(calls[s].routineId, calls[s].clientId) :
             /\ read # Null
             /\ \/ ViewIsListOf(read[1], calls[s])
                \/ ViewIsListOf(read[1], calls[t]) ]_vars

\* the view of fetchClientRoutines shows the exercise list of call c in
\* submission order, each exercise with as many sets as were submitted,
\* numbered from 1
ViewRoundTrips(view, c) ==
  /\ ViewIsListOf(view, c)
  /\ \A i \in 1..Len(c.exercises) :
       /\ Len(view.exercises[i].sets) = Len(c.exercises[i].sets)
       /\ \A j \in 1..Len(view.exercises[i].sets) :
            view.exercises[i].sets[j].setNumber = j

\* C28: round trip.  For a routine saved by upsertRoutine with every nested
\* insert succeeding, the view returned by fetchClientRoutines lists the
\* exercises in submission order and, for each exercise, exactly as many sets
\* as were submitted (none for an empty set list), numbered 1..k.  Stated of
\* a call that has returned while no store call failed and no other call
\* wrote anything.
C28_RoundTrip ==
  \A s \in Slots :
    LET c == calls[s] IN
    ( /\ Returned(c)
      /\ failures = 0
      /\ c.skipped = 0
      /\ c.paramRoutineId # NoId => c.matched
      /\ \A t \in Slots \ {s} : calls[t].wrote = {} )
    => \E r \in routines :
         /\ r.id = c.result
         /\ \A read \in fetchClientRoutines(r.client_id) :
              \E view \in read : view.id = r.id /\ ViewRoundTrips(view, c)

\* C29: whenever at least one of the client's sessions has today's UTC date,
\* computeStreakStats returns currentStreak >= 1, whatever other sessions
\* exist, sessions dated after today included.
C29_TodayCounts ==
  (streak # Null /\ Today \in SessionDates) => streak[1].currentStreak >= 1

\* the set numbers stored for submitted exercise `item` of session `id`
LoggedSetNumbers(id, item) ==
  { t.set_number : t \in { u \in session_log_sets :
                             u.session_log_id = id /\ u.item = item } }

\* the same, of the rows a step writes
WrittenSetNumbers(written, id, item) ==
  { t.set_number : t \in { u \in written : u.session_log_id = id /\ u.item = item } }

\* the routine a log-workout request read has this exercise at index i
MatchesRead(req, i) == FindRoutineExercise(req.routine[1], req.exercises[i]) # 0

\* C30: log-workout writes a session_logs row only when routineId names an
\* active routine assigned to the calling client; otherwise it answers 404 and
\* writes nothing.  Every session_log_sets row it writes references a catalog
\* exercise that is part of that routine, with set numbers 1..k per submitted
\* exercise, and submitted exercises that match no routine exercise are
\* dropped.  Stated of every step of a log-workout request: the routine is
\* the one stored when the request looked it up.
C30_LogOnlyOwnRoutine ==
  [][ \A q \in ReqSlots :
        (StepOf(q) /\ After(q).kind = "log-workout") =>
          LET before == request[q]
              after == After(q)
              own == { r \in routines :
                         r.id = after.routineId /\ r.client_id = after.client } IN
          \* the lookup: a routine of another client, or none, is answered 404
          /\ (before.pc = "fetch_routine" /\ own = {})
               => /\ after.pc = "done"
                  /\ response'.status \in {404, 500}
          /\ (before.pc = "fetch_routine" /\ after.pc = "done" /\ failures' = failures)
               => /\ own = {}
                  /\ response'.status = 404
          \* a request without a routine writes nothing
          /\ after.routine = Null
               => /\ session_logs' = session_logs
                  /\ session_log_sets' = session_log_sets
          \* the session row is of the routine found and of the caller
          /\ session_logs' # session_logs
               => /\ after.routine # Null
                  /\ after.routine[1].id = after.routineId
                  /\ after.routine[1].clientId = after.client
                  /\ session_logs' \ session_logs =
                       { [ id |-> after.sessionLogId, routine_id |-> after.routineId,
                           client_id |-> after.client, pt_id |-> after.routine[1].ptId,
                           performed_at |-> after.performedAt ] }
          \* the set rows are of exercises of the routine, numbered 1..k
          /\ session_log_sets' # session_log_sets
               => /\ session_log_sets \subseteq session_log_sets'
                  /\ \A t \in session_log_sets' \ session_log_sets :
                       /\ t.session_log_id = after.sessionLogId
                       /\ \E i \in 1..Len(after.routine[1].exercises) :
                            after.routine[1].exercises[i].exerciseId = t.exercise_id
                  /\ \A i \in 1..Len(after.exercises) :
                       WrittenSetNumbers(session_log_sets' \ session_log_sets,
                                         after.sessionLogId, i) =
                         IF MatchesRead(after, i) THEN 1..after.exercises[i].sets ELSE {}
    ]_vars

\* a workout of three submitted exercises has been answered 200: the sets of
\* the first (two, matched by routine exercise id) and of the second (matched
\* by name) are stored, the third matched nothing and left no row
C30_Witness ==
  /\ answered.kind = "log-workout"
  /\ response.status = 200
  /\ Len(answered.exercises) = 3
  /\ LoggedSetNumbers(answered.sessionLogId, 1) = 1..2
  /\ LoggedSetNumbers(answered.sessionLogId, 2) = {1}
  /\ LoggedSetNumbers(answered.sessionLogId, 3) = {}

\* a client has asked to log another client's routine and was answered 404,
\* with nothing stored
C30_WitnessNotFound ==
  /\ answered.kind = "log-workout"
  /\ answered.client # "c1"
  /\ response.status = 404
  /\ session_logs = {}
  /\ session_log_sets = {}

====
